---------------------------- MODULE Spec2Model ----------------------------
(***************************************************************************)
(* Tiny Search Engine: index persistence (indexsave / indexload), the      *)
(* indextest driver, and the querier's read-validate-evaluate-print loop.  *)
(*                                                                         *)
(* Strings are sequences of one-character strings, so that tokenising,     *)
(* case folding, number formatting and number parsing are computed the     *)
(* way the C code computes them.                                           *)
(***************************************************************************)
EXTENDS Integers, Sequences, FiniteSets, TLC

VARIABLES
    hashval,          \* the hash function of hash.c, as a map word -> value
    \* ---- indextest (src/unnamed/part_000) ----
    tpc,              \* position in indextest's main
    index1,           \* the hand-built index
    testfile,         \* "test.dat"
    index2,           \* the index indexload returns
    reloadfile,       \* "test_reload.dat"
    status,           \* indextest's exit status
    \* ---- querier (src/querier/query.c) ----
    pc,               \* position in the querier's main / process_query
    index,            \* the loaded index
    line,             \* the line fgets returned last
    tokens,           \* tokens[] as validate_and_parse_query left it
    num_tokens,       \* its return value (NONE before the first line)
    and_start_index,  \* process_query's and_start_index
    loop_i,           \* process_query's loop variable i at the group's end
    and_results,      \* the queue compute_and_intersection returned
    final_results,    \* process_query's final_results queue
    out,              \* what the current line printed, stdout and stderr
    exitCode,         \* the querier's exit code (NONE while it runs)
    g_count,          \* the static g_count of query.c, line 40
    mallocs,          \* the QueryResult allocated for the current line
    frees,            \* the calls of free on a QueryResult for the line
    stdin_line,       \* the line of standard input that is being read
    stdin_rest,       \* what fgets has not yet returned of that line
    tokreads,         \* the indexes i of the tokens[i] read for the line
    \* ---- indexload on any file (src/utils/pageio.c) ----
    lpc,              \* "call" before indexload is called, "ret" after
    indexnm,          \* the file indexload is given
    loaded,           \* the index indexload returns
    \* ---- indexer (src/unnamed/part_001) ----
    ipc,              \* position in the indexer's main / build_index
    pageDir,          \* the page directory: docID -> the page's word stream
    indexFile,        \* the index file the indexer writes
    ixindex,          \* build_index's index
    ixdocID,          \* build_index's docID
    ixpos,            \* build_index's pos: words of the page returned so far
    normalized,       \* build_index's normalized: NormalizeWord's last result
    pagesRead,        \* the docIDs pageload was called with, in order
    ixexit,           \* the indexer's exit code (NONE while it runs)
    \* ---- pageiotest (src/unnamed/part_000) on a page the crawler saved ----
    ppc,              \* position in pageiotest's main
    srcpage,          \* the page the crawler fetched
    pfile1,           \* the file "1" of the page directory
    page1,            \* pageload(1, pageDir)
    pfile999,         \* the file "999"
    page2,            \* pageload(999, ".")
    pfile888,         \* the file "888"
    pstatus,          \* pageiotest's status
    \* ---- crawler (src/utils/pageio.c, lines 260-425) ----
    cpc,              \* position in crawl
    web,              \* the web: what webpage_fetch finds for a URL
    maxDepth,         \* crawl's maxDepth
    seen_urls,        \* crawl's table of URLs
    pages_to_crawl,   \* crawl's queue of pages
    crawlDocID,       \* crawl's docID
    crawlDir,         \* the page directory: the docIDs that have a page file
    stored,           \* the URLs fetched, in the order they came to pagesave
    \* ---- rank arithmetic (src/querier/query.c) on any two ranks ----
    rpc,              \* "call" before, "cmp" or "sum" after
    rank_a,           \* res_a->rank, master_qr->rank
    rank_b,           \* res_b->rank, qr->rank
    rank_out          \* what the operation gave

tvars == <<tpc, index1, testfile, index2, reloadfile, status>>
qvars == <<pc, index, line, tokens, num_tokens, and_start_index, loop_i,
           and_results, final_results, out, exitCode, g_count, mallocs,
           frees, stdin_line, stdin_rest, tokreads>>
lvars == <<lpc, indexnm, loaded>>
ivars == <<ipc, pageDir, indexFile, ixindex, ixdocID, ixpos, normalized,
           pagesRead, ixexit>>
pvars == <<ppc, srcpage, pfile1, page1, pfile999, page2, pfile888, pstatus>>
cvars == <<cpc, web, maxDepth, seen_urls, pages_to_crawl, crawlDocID, crawlDir,
           stored>>
rvars == <<rpc, rank_a, rank_b, rank_out>>
vars  == <<hashval, tvars, qvars, lvars, ivars, pvars, cvars, rvars>>

---------------------------------------------------------------------------
(* Bounds of the model *)

\* most tokens on a query line
MaxTokens == 4
\* largest hash value a word may have
MaxHash == 11
\* most lines in an index file handed to indexload
MaxLines == 2
\* most page files in the page directory
MaxDocs == 3
\* most words in the pages the indexer reads, all pages together
MaxWords == 3
\* most characters in the HTML of a page that is saved and loaded
MaxHtml == 3
\* greatest maxDepth given to the crawler
MaxCrawlDepth == 2

(* Program constants *)

MAX_WORDS == 100
MAX_LINE == 512
IndexTableSize == 500
TestTableSize == 10
WordBufLen == 255
LineBufLen == 10000
UrlBufLen == 999
EXIT_SUCCESS == 0
EXIT_FAILURE == 1

NONE == -2

\* the values of an int: the rank of a QueryResult, the count of a document
INT_MAX == 2147483647
INT_MIN == -2147483647 - 1

---------------------------------------------------------------------------
(* <ctype.h>, <string.h>, <stdio.h> on character sequences *)

LowerCase == <<"a","b","c","d","e","f","g","h","i","j","k","l","m",
               "n","o","p","q","r","s","t","u","v","w","x","y","z">>
UpperCase == <<"A","B","C","D","E","F","G","H","I","J","K","L","M",
               "N","O","P","Q","R","S","T","U","V","W","X","Y","Z">>
Digits    == <<"0","1","2","3","4","5","6","7","8","9">>

isalpha(c) == \E k \in 1..26 : c = LowerCase[k] \/ c = UpperCase[k]
isdigit(c) == \E k \in 1..10 : c = Digits[k]
tolower(c) == IF \E k \in 1..26 : c = UpperCase[k]
              THEN LowerCase[CHOOSE k \in 1..26 : c = UpperCase[k]]
              ELSE c

DigitVal(c) == (CHOOSE k \in 1..10 : c = Digits[k]) - 1

Min(S) == CHOOSE x \in S : \A y \in S : x <= y

\* whether a + b, or a - b, leaves the values of an int
AddOverflows(a, b) ==
    \/ (a > 0 /\ b > INT_MAX - a)
    \/ (a < 0 /\ b < INT_MIN - a)
SubOverflows(a, b) ==
    \/ (b < 0 /\ a > INT_MAX + b)
    \/ (b > 0 /\ a < INT_MIN + b)

\* a + b and a - b in 32 bits, two's complement: the sum or difference less
\* or plus 2^32 when it leaves the values of an int
add32(a, b) ==
    IF a > 0 /\ b > INT_MAX - a THEN (a + INT_MIN) + (b + INT_MIN)
    ELSE IF a < 0 /\ b < INT_MIN - a THEN (a - INT_MIN) + (b - INT_MIN)
    ELSE a + b
sub32(a, b) ==
    IF b < 0 /\ a > INT_MAX + b THEN (a + INT_MIN) - (b - INT_MIN)
    ELSE IF b > 0 /\ a < INT_MIN + b THEN (a - INT_MIN) - (b + INT_MIN)
    ELSE a - b

\* s from position p (1-based) to its end
Drop(s, p) == SubSeq(s, p, Len(s))

\* first position >= p of s that holds no character of the set, or Len(s)+1
SkipSet(s, p, set) ==
    IF p > Len(s) THEN p
    ELSE CHOOSE k \in p..(Len(s) + 1) :
            /\ k = Len(s) + 1 \/ s[k] \notin set
            /\ \A j \in p..(k - 1) : s[j] \in set

\* first position >= p of s that holds a character of the set, or Len(s)+1
FindSet(s, p, set) ==
    IF p > Len(s) THEN p
    ELSE CHOOSE k \in p..(Len(s) + 1) :
            /\ k = Len(s) + 1 \/ s[k] \in set
            /\ \A j \in p..(k - 1) : s[j] \notin set

WhiteSpace == {" ", "\t", "\n", "\r", "\f"}

\* printf("%d"): the decimal digits of n, with a minus sign when negative
RECURSIVE FmtNat(_)
FmtNat(n) == IF n < 10 THEN <<Digits[n + 1]>>
             ELSE FmtNat(n \div 10) \o <<Digits[(n % 10) + 1]>>
FmtInt(n) == IF n < 0 THEN <<"-">> \o FmtNat(-n) ELSE FmtNat(n)

\* the digits of s from position p on: [val, next]
RECURSIVE ScanDigits(_, _, _)
ScanDigits(s, p, acc) ==
    IF p <= Len(s) /\ isdigit(s[p])
    THEN ScanDigits(s, p + 1, acc * 10 + DigitVal(s[p]))
    ELSE [val |-> acc, next |-> p]

\* sscanf's %d at position p: skips white space, takes an optional sign and
\* at least one digit. [ok, val, next]
ScanInt(s, p) ==
    LET q    == SkipSet(s, p, WhiteSpace)
        sign == q <= Len(s) /\ s[q] \in {"-", "+"}
        d    == IF sign THEN q + 1 ELSE q
        r    == ScanDigits(s, d, 0)
    IN  IF d <= Len(s) /\ isdigit(s[d])
        THEN [ok |-> TRUE,
              val |-> IF sign /\ s[q] = "-" THEN -r.val ELSE r.val,
              next |-> r.next]
        ELSE [ok |-> FALSE, val |-> 0, next |-> p]

\* sscanf's %<width>s at position p: skips white space, takes up to width
\* characters that are not white space. [ok, word, next]
ScanWord(s, p, width) ==
    LET q == SkipSet(s, p, WhiteSpace)
        e == FindSet(s, q, WhiteSpace)
        z == IF e - q > width THEN q + width ELSE e
    IN  IF q <= Len(s)
        THEN [ok |-> TRUE, word |-> SubSeq(s, q, z - 1), next |-> z]
        ELSE [ok |-> FALSE, word |-> <<>>, next |-> p]

\* the lines fgets returns on a file, one after the other, each with its
\* newline (the last one without, when the file does not end in one)
\* fgets(buf, size, fp) on the text f still to be read: the characters up to
\* and with the first newline, at most size - 1 of them
fgets(f, size) ==
    LET e == FindSet(f, 1, {"\n"})
        z == IF e > Len(f) THEN Len(f) ELSE e
    IN  SubSeq(f, 1, IF z > size - 1 THEN size - 1 ELSE z)

\* the lines a loop of fgets reads from f until it returns NULL
RECURSIVE FileLines(_, _)
FileLines(f, size) ==
    IF f = <<>> THEN <<>>
    ELSE LET l == fgets(f, size)
         IN  <<l>> \o FileLines(Drop(f, Len(l) + 1), size)

---------------------------------------------------------------------------
(* queue.c and hash.c: FIFO queues, and a table of size buckets, each a    *)
(* queue, the bucket of a key being its hash value modulo the size         *)

qput(q, e) == Append(q, e)

\* qsearch with search_doc / search_docid_queue: the position of the first
\* element of q whose docID is the key; 0 when there is none
qsearchDoc(q, docID) ==
    IF \E k \in 1..Len(q) : q[k].docID = docID
    THEN CHOOSE k \in 1..Len(q) :
            q[k].docID = docID /\ \A j \in 1..(k - 1) : q[j].docID # docID
    ELSE 0

hopen(size) == [size |-> size, elems |-> <<>>]

Bucket(ht, key) == hashval[key] % ht.size

\* hput appends the element to the queue of its key's bucket; elems keeps
\* the elements in the order of insertion
hput(ht, e, key) == [ht EXCEPT !.elems = Append(@, e)]

\* the queue of bucket b
BucketQueue(ht, b) ==
    SelectSeq(ht.elems, LAMBDA e : Bucket(ht, e.word) = b)

\* the queues of the buckets of the set, concatenated in increasing order of
\* bucket number
RECURSIVE ApplyFrom(_, _)
ApplyFrom(ht, used) ==
    IF used = {} THEN <<>>
    ELSE LET b == CHOOSE x \in used : \A y \in used : x <= y
         IN  BucketQueue(ht, b) \o ApplyFrom(ht, used \ {b})

\* the order in which happly visits the elements: bucket by bucket
happlySeq(ht) ==
    ApplyFrom(ht, {Bucket(ht, ht.elems[k].word) : k \in 1..Len(ht.elems)})

\* hsearch with search_word: the position in elems of the first entry of
\* the key's bucket whose word is the key; 0 when there is none
hsearchWord(ht, key) ==
    IF \E k \in 1..Len(ht.elems) : ht.elems[k].word = key
    THEN CHOOSE k \in 1..Len(ht.elems) :
            /\ ht.elems[k].word = key
            /\ \A j \in 1..(k - 1) : ht.elems[j].word # key
    ELSE 0

---------------------------------------------------------------------------
(* indexio.c: indexsave and indexload (src/utils/pageio.c, lines 142-258)  *)

NullIndex == [null |-> TRUE, size |-> 0, elems |-> <<>>]
NoFile    == [exists |-> FALSE, data |-> <<>>]

\* save_doc_queue: " <docID> <count>"
save_doc_queue(doc) ==
    <<" ">> \o FmtInt(doc.docID) \o <<" ">> \o FmtInt(doc.count)

RECURSIVE SaveDocs(_)
SaveDocs(docs) ==
    IF docs = <<>> THEN <<>>
    ELSE save_doc_queue(Head(docs)) \o SaveDocs(Tail(docs))

\* save_word_entry: the word, its docs in queue order, a newline
save_word_entry(word) == word.word \o SaveDocs(word.docs) \o <<"\n">>

RECURSIVE SaveWords(_)
SaveWords(entries) ==
    IF entries = <<>> THEN <<>>
    ELSE save_word_entry(Head(entries)) \o SaveWords(Tail(entries))

\* indexsave opening the file to append
indexsave_append(ht, old, canOpen) ==
    IF ~canOpen
    THEN [ret |-> 1, file |-> old]
    ELSE [ret |-> 0,
          file |-> [exists |-> TRUE,
                    data |-> old.data \o SaveWords(happlySeq(ht))]]

\* indexsave returning 0 when the file cannot be opened
indexsave_ret0(ht, old, canOpen) ==
    IF ~canOpen
    THEN [ret |-> 0, file |-> old]
    ELSE [ret |-> 0,
          file |-> [exists |-> TRUE, data |-> SaveWords(happlySeq(ht))]]

\* indexsave: [ret, file]. old is the file as it was, canOpen whether
\* fopen(indexnm, "w") succeeds
indexsave(ht, old, canOpen) ==
    IF ~canOpen
    THEN [ret |-> 1, file |-> old]
    ELSE [ret |-> 0,
          file |-> [exists |-> TRUE, data |-> SaveWords(happlySeq(ht))]]

\* the loop of sscanf(line + offset, " %d %d%n", ...) == 2
RECURSIVE LoadPairs(_, _)
LoadPairs(l, offset) ==
    LET a == ScanInt(l, offset)
        b == ScanInt(l, a.next)
    IN  IF a.ok /\ b.ok
        THEN <<[docID |-> a.val, count |-> b.val]>> \o LoadPairs(l, b.next)
        ELSE <<>>

\* one pass of indexload's while loop over the lines still to be read
RECURSIVE LoadLines(_, _)
LoadLines(ht, lines) ==
    IF lines = <<>> THEN ht
    ELSE LET l == Head(lines)
             w == ScanWord(l, 1, WordBufLen)
         IN  IF ~w.ok
             THEN LoadLines(ht, Tail(lines))
             ELSE LoadLines(
                    hput(ht,
                         [word |-> w.word, docs |-> LoadPairs(l, w.next)],
                         w.word),
                    Tail(lines))

\* indexload: NullIndex when the file cannot be opened
indexload(file) ==
    IF ~file.exists THEN NullIndex
    ELSE LoadLines([null |-> FALSE] @@ hopen(IndexTableSize),
                   FileLines(file.data, LineBufLen))

---------------------------------------------------------------------------
(* Words and indexes the model draws its inputs from *)

cat == <<"c", "a", "t">>
dog == <<"d", "o", "g">>

IndexWords == {cat, dog}

Doc(d, c) == [docID |-> d, count |-> c]

\* doc queues as build_index leaves them: ascending docIDs, counts >= 1
DocQueues ==
    { <<Doc(1, 2), Doc(3, 1)>>, <<Doc(2, 5)>>, <<Doc(1, 5)>>,
      <<Doc(1, 1), Doc(2, 12)>> }

\* the word entries of an index, in the order they are put into the table:
\* no word twice
EntrySeqs ==
    {<<>>}
    \cup { <<[word |-> w, docs |-> d]>> : w \in IndexWords, d \in DocQueues }
    \cup { <<[word |-> w[1], docs |-> d[1]], [word |-> w[2], docs |-> d[2]]>> :
             w \in {<<cat, dog>>, <<dog, cat>>},
             d \in DocQueues \X DocQueues }

RECURSIVE PutAll(_, _)
PutAll(ht, entries) ==
    IF entries = <<>> THEN ht
    ELSE PutAll(hput(ht, Head(entries), Head(entries).word), Tail(entries))

\* an index in a table of the given size
MakeIndex(size, entries) == PutAll([null |-> FALSE] @@ hopen(size), entries)

---------------------------------------------------------------------------
(* indextest: main of src/unnamed/part_000, lines 32-92.  create_test_index *)
(* is any hand-built index in a table of TestTableSize buckets; an index   *)
(* built by the indexer sits in a table of IndexTableSize buckets.         *)

\* no call of indexload on a file of its own, no indexer
LoaderIdle ==
    /\ lpc = "off"
    /\ indexnm = NoFile
    /\ loaded = NullIndex

IndexerIdle ==
    /\ ipc = "off"
    /\ pageDir = <<>>
    /\ indexFile = NoFile
    /\ ixindex = NullIndex
    /\ ixdocID = 0
    /\ ixpos = 0
    /\ normalized = [null |-> TRUE, word |-> <<>>]
    /\ pagesRead = <<>>
    /\ ixexit = NONE

NullPage == [null |-> TRUE, url |-> <<>>, depth |-> 0, html |-> <<>>]

PageioIdle ==
    /\ ppc = "off"
    /\ srcpage = NullPage
    /\ pfile1 = NoFile
    /\ page1 = NullPage
    /\ pfile999 = NoFile
    /\ page2 = NullPage
    /\ pfile888 = NoFile
    /\ pstatus = 0

CrawlerIdle ==
    /\ cpc = "off"
    /\ web = <<>>
    /\ maxDepth = 0
    /\ seen_urls = {}
    /\ pages_to_crawl = <<>>
    /\ crawlDocID = 0
    /\ crawlDir = {}
    /\ stored = <<>>

RankIdle ==
    /\ rpc = "off"
    /\ rank_a = 0
    /\ rank_b = 0
    /\ rank_out = NONE

OthersIdle == PageioIdle /\ CrawlerIdle /\ RankIdle

QuerierIdle ==
    /\ pc = "off"
    /\ index = NullIndex
    /\ line = <<>>
    /\ tokens = <<>>
    /\ num_tokens = NONE
    /\ and_start_index = 0
    /\ loop_i = 0
    /\ and_results = [null |-> TRUE, items |-> <<>>]
    /\ final_results = <<>>
    /\ out = <<>>
    /\ exitCode = NONE
    /\ g_count = 0
    /\ mallocs = 0
    /\ frees = 0
    /\ stdin_line = <<>>
    /\ stdin_rest = <<>>
    /\ tokreads = {}

TestInit ==
    /\ hashval \in [IndexWords -> 0..MaxHash]
    /\ tpc = "save"
    /\ index1 \in { MakeIndex(size, entries) :
                      size \in {TestTableSize, IndexTableSize},
                      entries \in EntrySeqs }
    /\ testfile = NoFile
    /\ index2 = NullIndex
    /\ reloadfile = NoFile
    /\ status = 0
    /\ QuerierIdle
    /\ LoaderIdle
    /\ IndexerIdle
    /\ OthersIdle

\* lines 46-50: indexsave(index1, testfile)
TestSave ==
    /\ tpc = "save"
    /\ \E canOpen \in BOOLEAN :
         LET r == indexsave(index1, testfile, canOpen)
         IN  /\ testfile' = r.file
             /\ status' = IF r.ret # 0 THEN 1 ELSE status
    /\ tpc' = "load"
    /\ UNCHANGED <<hashval, pvars, cvars, rvars, index1, index2, reloadfile, qvars, lvars, ivars>>

\* lines 52-57: index2 = indexload(testfile)
TestLoad ==
    /\ tpc = "load"
    /\ index2' = indexload(testfile)
    /\ status' = IF index2'.null THEN 1 ELSE status
    /\ tpc' = "resave"
    /\ UNCHANGED <<hashval, pvars, cvars, rvars, index1, testfile, reloadfile, qvars, lvars, ivars>>

\* lines 59-63: if status == 0, indexsave(index2, reloadfile)
TestResave ==
    /\ tpc = "resave"
    /\ IF status = 0
       THEN \E canOpen \in BOOLEAN :
              LET r == indexsave(index2, reloadfile, canOpen)
              IN  /\ reloadfile' = r.file
                  /\ status' = IF r.ret # 0 THEN 1 ELSE status
       ELSE UNCHANGED <<reloadfile, status>>
    /\ tpc' = "diff"
    /\ UNCHANGED <<hashval, pvars, cvars, rvars, index1, testfile, index2, qvars,
                   lvars, ivars>>

\* lines 65-78: if status == 0, diff the two files
TestDiff ==
    /\ tpc = "diff"
    /\ status' = IF status = 0 /\ testfile.data # reloadfile.data
                 THEN 1 ELSE status
    /\ tpc' = "done"
    /\ UNCHANGED <<hashval, pvars, cvars, rvars, index1, testfile, index2, reloadfile, qvars, lvars, ivars>>

TestNext == TestSave \/ TestLoad \/ TestResave \/ TestDiff

SpecIndextest == TestInit /\ [][TestNext]_vars

---------------------------------------------------------------------------
(* indexload on the files a user may hand to it: well-formed lines, lines  *)
(* without a word, lines whose pairs break off, a word longer than the     *)
(* word buffer                                                             *)

\* a word of one letter more than indexload's word buffer takes
LongWord == [k \in 1..(WordBufLen + 1) |-> "a"]

LoadLineSet ==
    { cat \o <<" ","1"," ","2","\n">>,
      dog \o <<" ","2"," ","5"," ","3"," ","1","\n">>,
      cat \o <<"\n">>,
      <<"\n">>,
      <<" ","\t","\n">>,
      dog \o <<" ","7","\n">>,
      dog \o <<" ","1"," ","2"," ","3","\n">>,
      cat \o <<" ","1"," ","2"," ","x"," ","3"," ","4","\n">>,
      cat \o <<" ","1"," ","2"," ","3"," ","4","x"," ","5"," ","6","\n">>,
      <<" "," ">> \o dog \o <<"\t","1","2"," "," ","-","3","\n">>,
      dog \o <<" ","1"," ","2">>,
      LongWord \o <<" ","1"," ","2","\n">> }

RECURSIVE Concat(_)
Concat(ls) == IF ls = <<>> THEN <<>> ELSE Head(ls) \o Concat(Tail(ls))

\* the files of at most MaxLines of these lines, and no file at all
LoadFiles ==
    { [exists |-> TRUE, data |-> Concat(ls)] :
        ls \in UNION { [1..n -> LoadLineSet] : n \in 0..MaxLines } }
    \cup {NoFile}

LoadInit ==
    /\ hashval = [w \in IndexWords |-> 0]
    /\ lpc = "call"
    /\ indexnm \in LoadFiles
    /\ loaded = NullIndex
    /\ tpc = "off" /\ index1 = NullIndex /\ testfile = NoFile
    /\ index2 = NullIndex /\ reloadfile = NoFile /\ status = 0
    /\ QuerierIdle
    /\ IndexerIdle
    /\ OthersIdle

\* a caller's index = indexload(indexnm)
IndexLoad ==
    /\ lpc = "call"
    /\ loaded' = indexload(indexnm)
    /\ lpc' = "ret"
    /\ UNCHANGED <<hashval, pvars, cvars, rvars, indexnm, tvars, qvars, ivars>>

LoadNext == IndexLoad

SpecIndexload == LoadInit /\ [][LoadNext]_vars

---------------------------------------------------------------------------
(* indexer: src/unnamed/part_001.  A page is the stream of words that      *)
(* webpage_getNextWord returns for it, one word a call.                    *)

NullWord == [null |-> TRUE, word |-> <<>>]

\* NormalizeWord without its test of the length
NormalizeWordAnyLength(word) ==
    IF \E k \in 1..Len(word) : ~isalpha(word[k]) THEN NullWord
    ELSE [null |-> FALSE, word |-> [k \in 1..Len(word) |-> tolower(word[k])]]

\* NormalizeWord, lines 161-172
NormalizeWord(word) ==
    IF Len(word) < 3 THEN NullWord
    ELSE IF \E k \in 1..Len(word) : ~isalpha(word[k]) THEN NullWord
    ELSE [null |-> FALSE, word |-> [k \in 1..Len(word) |-> tolower(word[k])]]

\* lines 112-141 leaving the count as it is when the word was seen before in
\* the document
record_word_once(ht, word, d) ==
    LET found_word == hsearchWord(ht, word)
    IN  IF found_word = 0
        THEN hput(ht, [word |-> word, docs |-> qput(<<>>, Doc(d, 1))], word)
        ELSE IF qsearchDoc(ht.elems[found_word].docs, d) = 0
        THEN [ht EXCEPT !.elems[found_word].docs = qput(@, Doc(d, 1))]
        ELSE ht

\* lines 112-141 appending a DocEntry for every occurrence of a known word
record_word_append(ht, word, d) ==
    LET found_word == hsearchWord(ht, word)
    IN  IF found_word = 0
        THEN hput(ht, [word |-> word, docs |-> qput(<<>>, Doc(d, 1))], word)
        ELSE [ht EXCEPT !.elems[found_word].docs = qput(@, Doc(d, 1))]

\* lines 112-141 of build_index: one normalized word of document d
record_word(ht, word, d) ==
    LET found_word == hsearchWord(ht, word)
    IN  IF found_word = 0
        THEN hput(ht, [word |-> word, docs |-> qput(<<>>, Doc(d, 1))], word)
        ELSE LET docs      == ht.elems[found_word].docs
                 found_doc == qsearchDoc(docs, d)
             IN  IF found_doc = 0
                 THEN [ht EXCEPT !.elems[found_word].docs = qput(@, Doc(d, 1))]
                 ELSE [ht EXCEPT
                         !.elems[found_word].docs[found_doc].count = @ + 1]

\* pageload(docID, pageDir): whether the page file can be read
PageExists(dir, d) == d \in 1..Len(dir) /\ dir[d].exists

\* the words on the pages: as indexed, capitalised, too short, not a word
RawWords == {cat, <<"D", "o", "g">>, <<"a", "t">>, <<"c", "4", "t">>}

StreamsUpTo(n) == UNION { [1..m -> RawWords] : m \in 0..n }

Page(words) == [exists |-> TRUE, words |-> words]
NoPage == [exists |-> FALSE, words |-> <<>>]

\* k pages with at most n words together
RECURSIVE PagesOf(_, _)
PagesOf(k, n) ==
    IF k = 0 THEN {<<>>}
    ELSE UNION { { <<Page(w)>> \o rest : rest \in PagesOf(k - 1, n - Len(w)) } :
                 w \in StreamsUpTo(n) }

\* the page files behind the first missing one: never read, of any content
RECURSIVE Unread(_)
Unread(k) ==
    IF k = 0 THEN {<<>>}
    ELSE { <<p>> \o rest : p \in {NoPage, Page(<<cat>>)}, rest \in Unread(k - 1) }

\* the page directories: pages 1..k, then a missing page, then any pages
PageDirs ==
    UNION { { pages \o rest :
                pages \in PagesOf(k, MaxWords),
                rest \in (IF k = MaxDocs THEN {<<>>}
                          ELSE { <<NoPage>> \o u : u \in Unread(MaxDocs - k - 1) }) } :
            k \in 0..MaxDocs }

\* the index file as it may be before the indexer runs
OldIndexFile ==
    [exists |-> TRUE,
     data |-> dog \o <<" ","9"," ","9"," ","8"," ","8","\n">>
              \o cat \o <<" ","7"," ","7","\n">>
              \o dog \o <<" ","6"," ","6","\n">>]

IxInit ==
    /\ hashval = (cat :> 3 @@ dog :> 14)
    /\ ipc = "start"
    /\ pageDir \in PageDirs
    /\ indexFile \in {NoFile, OldIndexFile}
    /\ ixindex = NullIndex
    /\ ixdocID = 0
    /\ ixpos = 0
    /\ normalized = NullWord
    /\ pagesRead = <<>>
    /\ ixexit = NONE
    /\ tpc = "off" /\ index1 = NullIndex /\ testfile = NoFile
    /\ index2 = NullIndex /\ reloadfile = NoFile /\ status = 0
    /\ QuerierIdle
    /\ LoaderIdle
    /\ OthersIdle

\* parse_args, lines 70-86, and lines 93-98 of build_index
IxParseArgs ==
    /\ ipc = "start"
    /\ pagesRead' = Append(pagesRead, 1)
    /\ IF PageExists(pageDir, 1)
       THEN /\ ixindex' = [null |-> FALSE] @@ hopen(IndexTableSize)
            /\ ixdocID' = 1
            /\ ipc' = "page"
            /\ ixexit' = ixexit
       ELSE /\ ipc' = "exit"
            /\ ixexit' = EXIT_FAILURE
            /\ UNCHANGED <<ixindex, ixdocID>>
    /\ UNCHANGED <<hashval, pvars, cvars, rvars, pageDir, indexFile, ixpos, normalized,
                   tvars, qvars, lvars>>

\* the loop of line 102 going on to the next docID when a page is missing
\* and a later page file exists
IxPageloadSkipGap ==
    /\ ipc = "page"
    /\ pagesRead' = Append(pagesRead, ixdocID)
    /\ ixpos' = 0
    /\ IF PageExists(pageDir, ixdocID)
       THEN ipc' = "words" /\ ixdocID' = ixdocID
       ELSE IF \E d \in (ixdocID + 1)..Len(pageDir) : pageDir[d].exists
       THEN ipc' = "page" /\ ixdocID' = ixdocID + 1
       ELSE ipc' = "save" /\ ixdocID' = ixdocID
    /\ UNCHANGED <<hashval, pvars, cvars, rvars, pageDir, indexFile, ixindex, normalized,
                   ixexit, tvars, qvars, lvars>>

\* line 102: page = pageload(docID, pageDir); lines 149-150 when it is NULL
IxPageload ==
    /\ ipc = "page"
    /\ pagesRead' = Append(pagesRead, ixdocID)
    /\ ipc' = IF PageExists(pageDir, ixdocID) THEN "words" ELSE "save"
    /\ ixpos' = 0
    /\ UNCHANGED <<hashval, pvars, cvars, rvars, pageDir, indexFile, ixindex, ixdocID, normalized,
                   ixexit, tvars, qvars, lvars>>

\* lines 108-143: webpage_getNextWord returns a word
IxWord ==
    /\ ipc = "words"
    /\ ixpos < Len(pageDir[ixdocID].words)
    /\ ixpos' = ixpos + 1
    /\ normalized' = NormalizeWord(pageDir[ixdocID].words[ixpos'])
    /\ ixindex' = IF normalized'.null THEN ixindex
                  ELSE record_word(ixindex, normalized'.word, ixdocID)
    /\ UNCHANGED <<hashval, pvars, cvars, rvars, ipc, pageDir, indexFile, ixdocID, pagesRead,
                   ixexit, tvars, qvars, lvars>>

\* lines 108, 145-146: no word is left; docID++
IxPageDone ==
    /\ ipc = "words"
    /\ ixpos >= Len(pageDir[ixdocID].words)
    /\ ixdocID' = ixdocID + 1
    /\ ipc' = "page"
    /\ UNCHANGED <<hashval, pvars, cvars, rvars, pageDir, indexFile, ixindex, ixpos, normalized,
                   pagesRead, ixexit, tvars, qvars, lvars>>

\* lines 49-63 of main: indexsave(index, indexFile) and the exit code
IxSave ==
    /\ ipc = "save"
    /\ \E canOpen \in BOOLEAN :
         LET r == indexsave(ixindex, indexFile, canOpen)
         IN  /\ indexFile' = r.file
             /\ ixexit' = IF r.ret # 0 THEN EXIT_FAILURE ELSE EXIT_SUCCESS
    /\ ipc' = "exit"
    /\ UNCHANGED <<hashval, pvars, cvars, rvars, pageDir, ixindex, ixdocID, ixpos, normalized,
                   pagesRead, tvars, qvars, lvars>>

IxNext == IxParseArgs \/ IxPageload \/ IxWord \/ IxPageDone \/ IxSave

SpecIndexer == IxInit /\ [][IxNext]_vars

---------------------------------------------------------------------------
(* querier: src/querier/query.c, lines 1-492                               *)

kw_and == <<"a", "n", "d">>
kw_or  == <<"o", "r">>

NullQueue == [null |-> TRUE, items |-> <<>>]
Queue(items) == [null |-> FALSE, items |-> items]

\* strtok(line, " \t\n") called until it returns NULL: the maximal runs of
\* characters that are no delimiter. A token starts where a character that
\* is no delimiter follows a delimiter or begins s; ord counts the starts up
\* to a position
strtok(s, delims) ==
    LET starts == { k \in 1..Len(s) :
                      s[k] \notin delims /\ (k = 1 \/ s[k - 1] \in delims) }
        ord == [b \in starts |-> Cardinality({ c \in starts : c <= b })]
    IN  [j \in 1..Cardinality(starts) |->
           LET b == CHOOSE c \in starts : ord[c] = j
           IN  SubSeq(s, b, FindSet(s, b, delims) - 1)]

\* validate_word as NormalizeWord does it: words under 3 letters refused
validate_word_min3(word) ==
    [ok |-> Len(word) >= 3 /\ \A k \in 1..Len(word) : isalpha(word[k]),
     word |-> [k \in 1..Len(word) |->
                 IF \A j \in 1..k : isalpha(word[j])
                 THEN tolower(word[k]) ELSE word[k]]]

\* validate_word, lines 204-213: [ok, word]; the word is lower-cased in
\* place up to its first character that is no letter
validate_word(word) ==
    LET bad == FindSet(word, 1, {c \in {word[k] : k \in 1..Len(word)} :
                                     ~isalpha(c)})
    IN  [ok |-> bad > Len(word),
         word |-> [k \in 1..Len(word) |->
                     IF k < bad THEN tolower(word[k]) ELSE word[k]]]

is_operator(tok) == tok = kw_and \/ tok = kw_or

\* the for loop of lines 181-197: [ret, tokens]. It returns -1 at the first
\* token (stop) that is an operator after an operator or a word that
\* validate_word refuses; validate_word has then lower-cased the words up
\* to stop in place
ValidateLoop(toks) ==
    LET stops == { k \in 1..Len(toks) :
                     IF is_operator(toks[k])
                     THEN k > 1 /\ is_operator(toks[k - 1])
                     ELSE ~validate_word(toks[k]).ok }
        stop  == IF stops = {} THEN Len(toks) ELSE Min(stops)
    IN  [ret    |-> IF stops = {} THEN Len(toks) ELSE -1,
         tokens |-> [k \in 1..Len(toks) |->
                       IF k <= stop /\ ~is_operator(toks[k])
                       THEN validate_word(toks[k]).word ELSE toks[k]]]

\* validate_and_parse_query with > for >= at line 163: token MAX_WORDS + 1
\* is stored as well
validate_and_parse_query_off_by_one(l) ==
    LET all   == strtok(l, {" ", "\t", "\n"})
        count == Len(all)
    IN  IF count > MAX_WORDS + 1
        THEN [ret |-> -1, tokens |-> SubSeq(all, 1, MAX_WORDS + 1)]
        ELSE IF count = 0 THEN [ret |-> 0, tokens |-> <<>>]
        ELSE IF is_operator(all[1]) THEN [ret |-> -1, tokens |-> all]
        ELSE IF is_operator(all[count]) THEN [ret |-> -1, tokens |-> all]
        ELSE ValidateLoop(all)

\* validate_and_parse_query, lines 158-199: [ret, tokens]
validate_and_parse_query(l) ==
    LET all   == strtok(l, {" ", "\t", "\n"})
        count == Len(all)
    IN  IF count > MAX_WORDS
        THEN [ret |-> -1, tokens |-> SubSeq(all, 1, MAX_WORDS)]
        ELSE IF count = 0 THEN [ret |-> 0, tokens |-> <<>>]
        ELSE IF is_operator(all[1]) THEN [ret |-> -1, tokens |-> all]
        ELSE IF is_operator(all[count]) THEN [ret |-> -1, tokens |-> all]
        ELSE ValidateLoop(all)

\* init_results_helper over a doc queue, lines 430-438
RECURSIVE InitResults(_)
InitResults(docs) ==
    IF docs = <<>> THEN <<>>
    ELSE <<[docID |-> Head(docs).docID, rank |-> Head(docs).count]>>
         \o InitResults(Tail(docs))

\* is_content without the test for "and"
is_content_len_only(tok) == Len(tok) >= 3

\* whether compute_and_intersection looks token tok up (lines 248 and 267)
is_content(tok) == tok # kw_and /\ Len(tok) >= 3

\* the first loop without its test: the group's first token is looked up
FirstWordIdxNoSkip(toks, i, end) == IF i > end THEN -1 ELSE i

\* the first loop, lines 247-257: the first index i in start..end (0-based)
\* of a content token, -1 when there is none
FirstWordIdx(toks, i, end) ==
    LET found == { k \in i..end : is_content(toks[k + 1]) }
    IN  IF found = {} THEN -1 ELSE Min(found)

\* the loop of lines 280-290 adding the counts instead of keeping the least
RECURSIVE IntersectLoopSum(_, _, _)
IntersectLoopSum(results, docs, j) ==
    IF j = 0 THEN results
    ELSE LET qr    == Head(results)
             found == qsearchDoc(docs, qr.docID)
         IN  IF found # 0
             THEN IntersectLoopSum(
                    qput(Tail(results),
                         [qr EXCEPT !.rank = @ + docs[found].count]),
                    docs, j - 1)
             ELSE IntersectLoopSum(Tail(results), docs, j - 1)

\* the loop of lines 280-290 with j checks still to do
RECURSIVE IntersectLoop(_, _, _)
IntersectLoop(results, docs, j) ==
    IF j = 0 THEN results
    ELSE LET qr    == Head(results)
             found == qsearchDoc(docs, qr.docID)
         IN  IF found # 0
             THEN IntersectLoop(
                    qput(Tail(results),
                         IF docs[found].count < qr.rank
                         THEN [qr EXCEPT !.rank = docs[found].count]
                         ELSE qr),
                    docs, j - 1)
             ELSE IntersectLoop(Tail(results), docs, j - 1)

\* the loop of lines 266-291 passing over a word that is not in the index
RECURSIVE AndLoopSkipAbsent(_, _, _, _, _)
AndLoopSkipAbsent(ht, toks, results, i, end) ==
    IF i > end THEN Queue(results)
    ELSE IF ~is_content(toks[i + 1]) \/ hsearchWord(ht, toks[i + 1]) = 0
    THEN AndLoopSkipAbsent(ht, toks, results, i + 1, end)
    ELSE AndLoopSkipAbsent(ht, toks,
            IntersectLoop(results,
                          ht.elems[hsearchWord(ht, toks[i + 1])].docs,
                          Len(results)),
            i + 1, end)

\* the loop of lines 266-291 from token i on
RECURSIVE AndLoop(_, _, _, _, _)
AndLoop(ht, toks, results, i, end) ==
    IF i > end THEN Queue(results)
    ELSE IF ~is_content(toks[i + 1])
    THEN AndLoop(ht, toks, results, i + 1, end)
    ELSE LET next_word == hsearchWord(ht, toks[i + 1])
         IN  IF next_word = 0 THEN NullQueue
             ELSE AndLoop(ht, toks,
                          IntersectLoop(results, ht.elems[next_word].docs,
                                        Len(results)),
                          i + 1, end)

\* compute_and_intersection, lines 242-293; start and end are 0-based
compute_and_intersection(ht, toks, start, end) ==
    LET first_word_idx == FirstWordIdx(toks, start, end)
        first_word == IF first_word_idx = -1 THEN 0
                      ELSE hsearchWord(ht, toks[first_word_idx + 1])
    IN  IF first_word = 0 THEN NullQueue
        ELSE AndLoop(ht, toks, InitResults(ht.elems[first_word].docs),
                     first_word_idx + 1, end)

\* g_count as the loop of lines 266-291 leaves it: line 276 sets it to 0 and
\* count_helper counts the queue before every intersection
RECURSIVE AndLoopCount(_, _, _, _, _, _)
AndLoopCount(ht, toks, results, i, end, g) ==
    IF i > end THEN g
    ELSE IF ~is_content(toks[i + 1])
    THEN AndLoopCount(ht, toks, results, i + 1, end, g)
    ELSE LET next_word == hsearchWord(ht, toks[i + 1])
         IN  IF next_word = 0 THEN g
             ELSE AndLoopCount(ht, toks,
                               IntersectLoop(results, ht.elems[next_word].docs,
                                             Len(results)),
                               i + 1, end, Len(results))

\* g_count as compute_and_intersection leaves it, g being its value before
CountAfterAnd(ht, toks, start, end, g) ==
    LET first_word_idx == FirstWordIdx(toks, start, end)
        first_word == IF first_word_idx = -1 THEN 0
                      ELSE hsearchWord(ht, toks[first_word_idx + 1])
    IN  IF first_word = 0 THEN g
        ELSE AndLoopCount(ht, toks, InitResults(ht.elems[first_word].docs),
                          first_word_idx + 1, end, g)

\* the results the loop of lines 266-291 frees, but for those of line 271
RECURSIVE AndLoopFreesLeak(_, _, _, _, _)
AndLoopFreesLeak(ht, toks, results, i, end) ==
    IF i > end THEN 0
    ELSE IF ~is_content(toks[i + 1])
    THEN AndLoopFreesLeak(ht, toks, results, i + 1, end)
    ELSE LET next_word == hsearchWord(ht, toks[i + 1])
         IN  IF next_word = 0 THEN 0
             ELSE LET docs == ht.elems[next_word].docs
                  IN  Cardinality({ j \in 1..Len(results) :
                                      qsearchDoc(docs, results[j].docID) = 0 })
                      + AndLoopFreesLeak(ht, toks,
                            IntersectLoop(results, docs, Len(results)),
                            i + 1, end)

\* the calls of free in the loop of lines 266-291: the whole queue at line
\* 271 when a word is not in the index, every result not found at line 288
RECURSIVE AndLoopFrees(_, _, _, _, _)
AndLoopFrees(ht, toks, results, i, end) ==
    IF i > end THEN 0
    ELSE IF ~is_content(toks[i + 1])
    THEN AndLoopFrees(ht, toks, results, i + 1, end)
    ELSE LET next_word == hsearchWord(ht, toks[i + 1])
         IN  IF next_word = 0 THEN Len(results)
             ELSE LET docs == ht.elems[next_word].docs
                  IN  Cardinality({ j \in 1..Len(results) :
                                      qsearchDoc(docs, results[j].docID) = 0 })
                      + AndLoopFrees(ht, toks,
                            IntersectLoop(results, docs, Len(results)),
                            i + 1, end)

\* compute_and_intersection: the results init_results_helper allocates
\* (line 432) and the results it frees: [mallocs, frees]
AndHeap(ht, toks, start, end) ==
    LET first_word_idx == FirstWordIdx(toks, start, end)
        first_word == IF first_word_idx = -1 THEN 0
                      ELSE hsearchWord(ht, toks[first_word_idx + 1])
    IN  IF first_word = 0 THEN [mallocs |-> 0, frees |-> 0]
        ELSE [mallocs |-> Len(ht.elems[first_word].docs),
              frees |-> AndLoopFrees(ht, toks,
                                     InitResults(ht.elems[first_word].docs),
                                     first_word_idx + 1, end)]

\* merge_or_results: the calls of free at line 306
RECURSIVE MergeFrees(_, _)
MergeFrees(final, and_q) ==
    IF and_q = <<>> THEN 0
    ELSE LET qr        == Head(and_q)
             master_qr == qsearchDoc(final, qr.docID)
         IN  IF master_qr = 0
             THEN MergeFrees(qput(final, qr), Tail(and_q))
             ELSE 1 + MergeFrees(final, Tail(and_q))

\* merge_or_results dropping a document the final queue already holds
RECURSIVE merge_or_results_keep(_, _)
merge_or_results_keep(final, and_q) ==
    IF and_q = <<>> THEN final
    ELSE IF qsearchDoc(final, Head(and_q).docID) = 0
    THEN merge_or_results_keep(qput(final, Head(and_q)), Tail(and_q))
    ELSE merge_or_results_keep(final, Tail(and_q))

\* merge_or_results putting every result into the final queue
merge_or_results_append(final, and_q) == final \o and_q

\* merge_or_results, lines 298-309
RECURSIVE merge_or_results(_, _)
merge_or_results(final, and_q) ==
    IF and_q = <<>> THEN final
    ELSE LET qr        == Head(and_q)
             master_qr == qsearchDoc(final, qr.docID)
         IN  IF master_qr = 0
             THEN merge_or_results(qput(final, qr), Tail(and_q))
             ELSE merge_or_results(
                    [final EXCEPT ![master_qr].rank = add32(@, qr.rank)],
                    Tail(and_q))

\* the index i (0-based, from..num) at which process_query's loop next
\* closes a group: i = num or tokens[i] = "or" (line 223)
GroupEnd(toks, i, num) ==
    LET ors == { k \in i..(num - 1) : toks[k + 1] = kw_or }
    IN  IF i >= num THEN i ELSE IF ors = {} THEN num ELSE Min(ors)

\* the indexes i of the tokens[i] that the test of line 223 reads while i
\* runs from..to: tokens[i] is not read when i = num_tokens
LoopReads(from, to, num) == { i \in from..to : i # num }

\* the indexes compute_and_intersection reads: the first loop (line 248) up
\* to the first content token, the second loop (line 267) up to the first
\* content token that is not in the index
AndReads(ht, toks, start, end) ==
    LET first_word_idx == FirstWordIdx(toks, start, end)
        absent == { i \in (first_word_idx + 1)..end :
                      /\ is_content(toks[i + 1])
                      /\ hsearchWord(ht, toks[i + 1]) = 0 }
    IN  IF first_word_idx = -1 THEN start..end
        ELSE IF hsearchWord(ht, toks[first_word_idx + 1]) = 0
        THEN start..first_word_idx
        ELSE start..(IF absent = {} THEN end ELSE Min(absent))

\* process_query's loop, lines 222-231, from and_start_index = start on:
\* the final queue it hands to print_results
RECURSIVE process_query_loop(_, _, _, _)
process_query_loop(ht, toks, start, final) ==
    LET i == GroupEnd(toks, start, Len(toks))
        and_q == compute_and_intersection(ht, toks, start, i - 1)
        merged == IF and_q.null THEN final
                  ELSE merge_or_results(final, and_q.items)
    IN  IF i >= Len(toks) THEN merged
        ELSE process_query_loop(ht, toks, i + 1, merged)

\* compare_results with its operands exchanged
compare_results_ascending(a, b) == a.rank - b.rank

\* compare_results, lines 454-458
compare_results(a, b) == sub32(b.rank, a.rank)

\* the arrays qsort may leave: the permutations of arr in which no element
\* compares greater than a later one (qsort is not stable)
Sorted(arr) ==
    LET n == Len(arr)
        perms == { p \in [1..n -> 1..n] :
                     \A a, b \in 1..n : a # b => p[a] # p[b] }
    IN  { [k \in 1..n |-> arr[p[k]]] : p \in
            { q \in perms :
                \A a, b \in 1..n :
                   a < b => compare_results(arr[q[a]], arr[q[b]]) <= 0 } }

\* the documents whose page file pageload can read
PageDocs == {1, 2}

OutInvalid == [kind |-> "[invalid query]", docID |-> 0, rank |-> 0]
OutNoMatch == [kind |-> "No documents match.", docID |-> 0, rank |-> 0]
OutHeader(n) == [kind |-> "Matches", docID |-> 0, rank |-> n]
OutRow(qr) == [kind |-> "row", docID |-> qr.docID, rank |-> qr.rank]
\* the warning of line 340, on stderr
OutWarning(qr) == [kind |-> "Warning", docID |-> qr.docID, rank |-> 0]

\* the loop of lines 334-361 leaving the function at the first page that
\* cannot be loaded
RECURSIVE PrintRowsAbort(_)
PrintRowsAbort(arr) ==
    IF arr = <<>> THEN <<>>
    ELSE IF Head(arr).docID \in PageDocs
    THEN <<OutRow(Head(arr))>> \o PrintRowsAbort(Tail(arr))
    ELSE <<OutWarning(Head(arr))>>

\* the loop of lines 334-361 over the sorted array
RECURSIVE PrintRows(_)
PrintRows(arr) ==
    IF arr = <<>> THEN <<>>
    ELSE (IF Head(arr).docID \in PageDocs THEN <<OutRow(Head(arr))>>
          ELSE <<OutWarning(Head(arr))>>) \o PrintRows(Tail(arr))

\* print_results printing the header and the rows of an empty queue as well
print_results_no_empty_case(final) ==
    { <<OutHeader(Len(final))>> \o PrintRows(arr) : arr \in Sorted(final) }

\* print_results without line 317: count_helper counts on from the value
\* g_count was left with
print_results_stale_count(final) ==
    IF g_count + Len(final) = 0 THEN { <<OutNoMatch>> }
    ELSE { <<OutHeader(g_count + Len(final))>> \o PrintRows(arr) :
             arr \in Sorted(final) }

\* print_results, lines 316-364: what it may print
print_results(final) ==
    IF Len(final) = 0 THEN { <<OutNoMatch>> }
    ELSE { <<OutHeader(Len(final))>> \o PrintRows(arr) : arr \in Sorted(final) }

\* the branch leaving the loop on an invalid query
MainBranchStop(n) == IF n = -1 THEN "exit" ELSE IF n > 0 THEN "and" ELSE "next"

\* lines 96-105 of main: where the loop goes with the validator's answer:
\* into process_query ("and"), or to the end of the loop body ("next")
MainBranch(n) == IF n = -1 THEN "next" ELSE IF n > 0 THEN "and" ELSE "next"

\* lines 96-97 of main: what it prints with the validator's answer
MainReport(n) == IF n = -1 THEN <<OutInvalid>> ELSE <<>>

---------------------------------------------------------------------------
(* The inputs of the querier *)

Dog  == <<"D", "o", "g">>
Or   == <<"O", "r">>
at   == <<"a", "t">>
c4t  == <<"c", "4", "t">>

QueryWords == {cat, Dog, kw_and, kw_or, Or, at, c4t}

RECURSIVE JoinLine(_)
JoinLine(ts) ==
    IF ts = <<>> THEN <<"\n">>
    ELSE IF Len(ts) = 1 THEN Head(ts) \o <<"\n">>
    ELSE Head(ts) \o <<" ">> \o JoinLine(Tail(ts))

\* the lines of at most MaxTokens tokens, single blanks between them, and
\* three lines with other white space
QueryLines ==
    { JoinLine(ts) : ts \in UNION { [1..n -> QueryWords] : n \in 0..MaxTokens } }
    \cup { <<" ", "\t", "\n">>,
           <<"\t">> \o cat \o <<" ", " ">> \o Dog \o <<" ", "\n">>,
           cat \o <<"\t">> \o kw_or \o <<"\t">> \o Dog }

\* a line of n tokens: n - 1 times "at ", then "cat" and the newline
ManyWords(n) ==
    [k \in 1..(3 * (n - 1)) |-> IF k % 3 = 0 THEN " " ELSE at[k % 3]]
    \o cat \o <<"\n">>

\* a line longer than the buffer of line 84: cat, blanks up to the 511th
\* character, then Dog and the newline
LongLine ==
    cat \o [k \in 1..(MAX_LINE - 1 - Len(cat)) |-> " "] \o Dog \o <<"\n">>

\* what standard input holds: the short lines, lines of MAX_WORDS and of
\* MAX_WORDS + 1 words, and the long line
StdinLines ==
    QueryLines \cup {ManyWords(MAX_WORDS), ManyWords(MAX_WORDS + 1), LongLine}

\* the index files: what indexsave wrote for these indexes
QuerierEntrySeqs ==
    { <<[word |-> cat, docs |-> <<Doc(1, 2), Doc(3, 1)>>],
        [word |-> dog, docs |-> <<Doc(2, 5)>>]>>,
      <<[word |-> dog, docs |-> <<Doc(1, 1), Doc(2, 12)>>],
        [word |-> cat, docs |-> <<Doc(1, 5), Doc(2, 1), Doc(3, 2)>>]>>,
      <<[word |-> cat, docs |-> <<Doc(1, 2)>>],
        [word |-> dog, docs |-> <<Doc(1, 5)>>]>>,
      <<[word |-> cat, docs |-> <<Doc(1, 2), Doc(2, 3)>>]>>,
      <<>> }

\* an index file a user wrote: document 1 twice in the doc list of "cat"
DupIndexFile ==
    [exists |-> TRUE,
     data |-> cat \o <<" ","1"," ","2"," ","1"," ","3"," ","2"," ","4","\n">>]

IndexFiles ==
    { [exists |-> TRUE, data |-> SaveWords(es)] : es \in QuerierEntrySeqs }
    \cup { DupIndexFile }

---------------------------------------------------------------------------
(* The querier's main, lines 71-116, and process_query, lines 218-237      *)

TestIdle ==
    /\ tpc = "off"
    /\ index1 = NullIndex
    /\ testfile = NoFile
    /\ index2 = NullIndex
    /\ reloadfile = NoFile
    /\ status = 0

Init ==
    /\ hashval = (cat :> 3 @@ dog :> 14)
    /\ TestIdle
    /\ LoaderIdle
    /\ IndexerIdle
    /\ OthersIdle
    /\ pc = "start"
    /\ index = NullIndex
    /\ line = <<>>
    /\ tokens = <<>>
    /\ num_tokens = NONE
    /\ and_start_index = 0
    /\ loop_i = 0
    /\ and_results = NullQueue
    /\ final_results = <<>>
    /\ out = <<>>
    /\ exitCode = NONE
    /\ g_count = 0
    /\ mallocs = 0
    /\ frees = 0
    /\ stdin_line = <<>>
    /\ stdin_rest = <<>>
    /\ tokreads = {}

\* lines 78-82: index = indexload(indexFile); exit when it is NULL
LoadIndex ==
    /\ pc = "start"
    /\ \E f \in IndexFiles \cup {NoFile} :
         /\ index' = indexload(f)
         /\ pc' = IF index'.null THEN "exit" ELSE "loop"
         /\ exitCode' = IF index'.null THEN EXIT_FAILURE ELSE exitCode
    /\ UNCHANGED <<hashval, pvars, cvars, rvars, tvars, lvars, ivars, line, tokens, num_tokens, and_start_index,
                   loop_i, and_results, final_results, out, g_count,
                   mallocs, frees, stdin_line, stdin_rest, tokreads>>

\* lines 90-105: fgets returns a line; validate_and_parse_query; the branch
\* on num_tokens, up to the call of process_query and its lines 219-220
ReadQuery ==
    /\ pc = "loop"
    /\ \E l \in (IF stdin_rest = <<>> THEN StdinLines ELSE {stdin_rest}) :
         \E v \in {validate_and_parse_query(fgets(l, MAX_LINE))} :
             /\ stdin_line' = (IF stdin_rest = <<>> THEN l ELSE stdin_line)
             /\ stdin_rest' = Drop(l, Len(fgets(l, MAX_LINE)) + 1)
             /\ line' = fgets(l, MAX_LINE)
             /\ tokens' = v.tokens
             /\ num_tokens' = v.ret
             /\ out' = MainReport(v.ret)
             /\ pc' = MainBranch(v.ret)
    /\ and_start_index' = 0
    /\ final_results' = <<>>
    /\ mallocs' = 0
    /\ frees' = 0
    /\ tokreads' = {}
    /\ UNCHANGED <<hashval, pvars, cvars, rvars, tvars, lvars, ivars, index, loop_i, and_results, exitCode,
                   g_count>>

\* line 107: the end of the loop body. line, tokens, num_tokens and the text
\* printed for the line are dead from here on (fgets and
\* validate_and_parse_query write them anew before anything reads them),
\* and are blanked
LoopBack ==
    /\ pc = "next"
    /\ pc' = "loop"
    /\ line' = <<>>
    /\ tokens' = <<>>
    /\ out' = <<>>
    /\ mallocs' = 0
    /\ frees' = 0
    /\ stdin_line' = (IF stdin_rest = <<>> THEN <<>> ELSE stdin_line)
    /\ tokreads' = {}
    /\ num_tokens' = NONE
    /\ UNCHANGED <<hashval, pvars, cvars, rvars, tvars, lvars, ivars, index, and_start_index, loop_i,
                   and_results, final_results, exitCode, g_count, stdin_rest>>

\* lines 90 and 110-115: fgets returns NULL at end of input
ReadEOF ==
    /\ pc = "loop"
    /\ stdin_rest = <<>>
    /\ pc' = "exit"
    /\ exitCode' = EXIT_SUCCESS
    /\ UNCHANGED <<hashval, pvars, cvars, rvars, tvars, lvars, ivars, index, line, tokens, num_tokens,
                   and_start_index, loop_i, and_results, final_results, out,
                   g_count, mallocs, frees, stdin_line, stdin_rest, tokreads>>

\* lines 222-224: the loop runs to the end of the next AND-group and calls
\* compute_and_intersection on it
AndGroup ==
    /\ pc = "and"
    /\ loop_i' = GroupEnd(tokens, and_start_index, num_tokens)
    /\ and_results' = compute_and_intersection(index, tokens,
                                               and_start_index, loop_i' - 1)
    /\ g_count' = CountAfterAnd(index, tokens, and_start_index, loop_i' - 1,
                                g_count)
    /\ LET h == AndHeap(index, tokens, and_start_index, loop_i' - 1)
       IN  mallocs' = mallocs + h.mallocs /\ frees' = frees + h.frees
    /\ tokreads' = tokreads \cup LoopReads(and_start_index, loop_i', num_tokens)
                    \cup AndReads(index, tokens, and_start_index, loop_i' - 1)
    /\ pc' = "merge"
    /\ UNCHANGED <<hashval, pvars, cvars, rvars, tvars, lvars, ivars, index, line, tokens, num_tokens,
                   and_start_index, final_results, out, exitCode, stdin_line,
                   stdin_rest>>

\* lines 225-230: merge_or_results and qclose when the group's queue is not
\* NULL; the loop goes on after the group, or ends
MergeGroup ==
    /\ pc = "merge"
    /\ final_results' = IF and_results.null THEN final_results
                        ELSE merge_or_results(final_results, and_results.items)
    /\ frees' = IF and_results.null THEN frees
                ELSE frees + MergeFrees(final_results, and_results.items)
    /\ and_results' = NullQueue
    /\ and_start_index' = loop_i + 1
    /\ pc' = IF loop_i >= num_tokens THEN "print" ELSE "and"
    /\ UNCHANGED <<hashval, pvars, cvars, rvars, tvars, lvars, ivars, index, line, tokens, num_tokens, loop_i,
                   out, exitCode, g_count, mallocs, stdin_line, stdin_rest,
                   tokreads>>

\* lines 233-236: print_results, then the final queue is freed and closed
PrintResults ==
    /\ pc = "print"
    /\ \E printed \in print_results(final_results) : out' = out \o printed
    /\ g_count' = Len(final_results)
    /\ frees' = frees + Len(final_results)
    /\ final_results' = <<>>
    /\ and_start_index' = 0
    /\ loop_i' = 0
    /\ pc' = "next"
    /\ UNCHANGED <<hashval, pvars, cvars, rvars, tvars, lvars, ivars, index, line, tokens, num_tokens,
                   and_results, exitCode, mallocs, stdin_line, stdin_rest,
                   tokreads>>

Next ==
    \/ LoadIndex \/ ReadQuery \/ ReadEOF \/ AndGroup \/ MergeGroup
    \/ PrintResults \/ LoopBack

Spec == Init /\ [][Next]_vars

---------------------------------------------------------------------------
(* The two drivers that open an index file: a run of the indexer or a run  *)
(* of the querier                                                          *)

DriversInit == Init \/ IxInit

DriversNext == Next \/ IxNext

SpecDrivers == DriversInit /\ [][DriversNext]_vars

---------------------------------------------------------------------------
(* pageio.c: pagesave and pageload, lines 24-114, and pageiotest, main of  *)
(* src/unnamed/part_000, lines 178-251, run on a page directory whose page *)
(* 1 the crawler saved                                                     *)

webpage_new(url, depth, html) ==
    [null |-> FALSE, url |-> url, depth |-> depth, html |-> html]
webpage_getHTMLlen(pagep) == Len(pagep.html)

\* pagesave: [ret, file]. old is the file as it was, canOpen whether
\* fopen(filepath, "w") succeeds
pagesave(pagep, old, canOpen) ==
    IF ~canOpen
    THEN [ret |-> 1, file |-> old]
    ELSE [ret |-> 0,
          file |-> [exists |-> TRUE,
                    data |-> pagep.url \o <<"\n">>
                             \o FmtInt(pagep.depth) \o <<"\n">>
                             \o FmtInt(webpage_getHTMLlen(pagep)) \o <<"\n">>
                             \o pagep.html]]

\* pageload: NullPage when the file cannot be opened, when one of the three
\* fscanf fails or when fread gets fewer than html_len bytes. The "\n" that
\* ends each fscanf format takes all the white space that follows
pageload(file) ==
    IF ~file.exists THEN NullPage
    ELSE LET s        == file.data
             url      == ScanWord(s, 1, UrlBufLen)
             depth    == ScanInt(s, SkipSet(s, url.next, WhiteSpace))
             html_len == ScanInt(s, SkipSet(s, depth.next, WhiteSpace))
             body     == SkipSet(s, html_len.next, WhiteSpace)
         IN  IF ~url.ok THEN NullPage
             ELSE IF ~depth.ok THEN NullPage
             ELSE IF ~html_len.ok THEN NullPage
             ELSE IF html_len.val < 0 \/ Len(s) - body + 1 < html_len.val
             THEN NullPage
             ELSE webpage_new(url.word, depth.val,
                              SubSeq(s, body, body + html_len.val - 1))

\* the pages a crawler may fetch: HTML of any content
HtmlChars == {"a", " ", "\n"}
HtmlTexts == UNION { [1..n -> HtmlChars] : n \in 0..MaxHtml }
CrawledPages ==
    { webpage_new(url, depth, html) :
        url \in { <<"u">>, <<"h", ":", "/", "2">> },
        depth \in {0, 12},
        html \in HtmlTexts }

PtInit ==
    /\ hashval = [w \in IndexWords |-> 0]
    /\ ppc = "load1"
    /\ srcpage \in CrawledPages
    /\ pfile1 = pagesave(srcpage, NoFile, TRUE).file
    /\ page1 = NullPage
    /\ pfile999 = NoFile
    /\ page2 = NullPage
    /\ pfile888 = NoFile
    /\ pstatus = 0
    /\ TestIdle /\ QuerierIdle /\ LoaderIdle /\ IndexerIdle
    /\ CrawlerIdle /\ RankIdle

\* lines 199-203: page1 = pageload(1, pageDir); return 1 when it is NULL
PtLoad1 ==
    /\ ppc = "load1"
    /\ page1' = pageload(pfile1)
    /\ pstatus' = IF page1'.null THEN 1 ELSE pstatus
    /\ ppc' = IF page1'.null THEN "done" ELSE "save1"
    /\ UNCHANGED <<hashval, tvars, qvars, lvars, ivars, cvars, rvars,
                   srcpage, pfile1, pfile999, page2, pfile888>>

\* lines 206-209: pagesave(page1, 999, ".")
PtSave1 ==
    /\ ppc = "save1"
    /\ \E canOpen \in BOOLEAN :
         LET r == pagesave(page1, pfile999, canOpen)
         IN  /\ pfile999' = r.file
             /\ pstatus' = IF r.ret # 0 THEN 1 ELSE pstatus
    /\ ppc' = "load2"
    /\ UNCHANGED <<hashval, tvars, qvars, lvars, ivars, cvars, rvars,
                   srcpage, pfile1, page1, page2, pfile888>>

\* lines 212-216: page2 = pageload(999, ".")
PtLoad2 ==
    /\ ppc = "load2"
    /\ page2' = pageload(pfile999)
    /\ pstatus' = IF page2'.null THEN 1 ELSE pstatus
    /\ ppc' = "save2"
    /\ UNCHANGED <<hashval, tvars, qvars, lvars, ivars, cvars, rvars,
                   srcpage, pfile1, page1, pfile999, pfile888>>

\* lines 219-224: if status == 0, pagesave(page2, 888, ".")
PtSave2 ==
    /\ ppc = "save2"
    /\ IF pstatus = 0
       THEN \E canOpen \in BOOLEAN :
              LET r == pagesave(page2, pfile888, canOpen)
              IN  /\ pfile888' = r.file
                  /\ pstatus' = IF r.ret # 0 THEN 1 ELSE pstatus
       ELSE UNCHANGED <<pfile888, pstatus>>
    /\ ppc' = "diff"
    /\ UNCHANGED <<hashval, tvars, qvars, lvars, ivars, cvars, rvars,
                   srcpage, pfile1, page1, pfile999, page2>>

\* lines 227-250: if status == 0, diff the two files; remove them
PtDiff ==
    /\ ppc = "diff"
    /\ pstatus' = IF pstatus = 0 /\ pfile999.data # pfile888.data
                  THEN 1 ELSE pstatus
    /\ pfile999' = NoFile
    /\ pfile888' = NoFile
    /\ ppc' = "done"
    /\ UNCHANGED <<hashval, tvars, qvars, lvars, ivars, cvars, rvars,
                   srcpage, pfile1, page1, page2>>

PtNext == PtLoad1 \/ PtSave1 \/ PtLoad2 \/ PtSave2 \/ PtDiff

SpecPageio == PtInit /\ [][PtNext]_vars

---------------------------------------------------------------------------
(* crawler: src/utils/pageio.c, lines 260-425. webpage_fetch,              *)
(* webpage_getNextURL and IsInternalURL are of webpage.c: a web gives, for *)
(* every URL, whether the fetch succeeds and the URLs its HTML holds       *)

seedURL == <<"s">>
InternalURLs == {<<"s">>, <<"a">>, <<"b">>}
IsInternalURL(url) == url \in InternalURLs

\* the links of two webs; <<"x">> is a URL of another site
WebLinks ==
    { [u \in InternalURLs |->
         IF u = <<"s">> THEN << <<"a">>, <<"b">> >>
         ELSE IF u = <<"a">> THEN << <<"s">>, <<"b">> >>
         ELSE << <<"x">> >>],
      [u \in InternalURLs |->
         IF u = <<"s">> THEN << <<"a">>, <<"a">>, <<"x">> >>
         ELSE IF u = <<"a">> THEN << <<"b">> >>
         ELSE << <<"s">> >>] }

\* every web: links, and the URLs whose fetch fails
Webs ==
    { [u \in InternalURLs |-> [ok |-> u \notin down, links |-> l[u]]] :
        l \in WebLinks, down \in SUBSET InternalURLs }

webpage_fetch(pagep) == web[pagep.url].ok

\* the loop of lines 363-375 over the URLs that webpage_getNextURL gives:
\* [seen, queue]
RECURSIVE ScanLinks(_, _, _, _)
ScanLinks(links, seen, queue, depth) ==
    IF links = <<>> THEN [seen |-> seen, queue |-> queue]
    ELSE LET result_url == Head(links)
         IN  IF IsInternalURL(result_url) /\ result_url \notin seen
             THEN ScanLinks(Tail(links), seen \cup {result_url},
                            qput(queue, webpage_new(result_url, depth + 1,
                                                    <<>>)),
                            depth)
             ELSE ScanLinks(Tail(links), seen, queue, depth)

\* after parse_args: the page directory is writable and holds no page
\* file, maxDepth >= 0; the seed URL is in its normal form
CrInit ==
    /\ hashval = [w \in IndexWords |-> 0]
    /\ cpc = "seed"
    /\ web \in Webs
    /\ maxDepth \in 0..MaxCrawlDepth
    /\ seen_urls = {}
    /\ pages_to_crawl = <<>>
    /\ crawlDocID = 0
    /\ crawlDir = {}
    /\ stored = <<>>
    /\ TestIdle /\ QuerierIdle /\ LoaderIdle /\ IndexerIdle
    /\ PageioIdle /\ RankIdle

\* lines 334-346: docID = 1, the seed URL is seen and its page queued
CrSeed ==
    /\ cpc = "seed"
    /\ crawlDocID' = 1
    /\ seen_urls' = {seedURL}
    /\ pages_to_crawl' = qput(<<>>, webpage_new(seedURL, 0, <<>>))
    /\ cpc' = "loop"
    /\ UNCHANGED <<hashval, tvars, qvars, lvars, ivars, pvars, rvars,
                   web, maxDepth, crawlDir, stored>>

\* lines 349-356: the page taken from the queue cannot be fetched
CrFetchFail ==
    /\ cpc = "loop"
    /\ pages_to_crawl # <<>>
    /\ ~webpage_fetch(Head(pages_to_crawl))
    /\ pages_to_crawl' = Tail(pages_to_crawl)
    /\ UNCHANGED <<hashval, tvars, qvars, lvars, ivars, pvars, rvars,
                   cpc, web, maxDepth, seen_urls, crawlDocID, crawlDir,
                   stored>>

\* lines 349-378: the page is fetched; pagesave(current_page, docID++,
\* pageDir), whose result is not looked at, writes the file when fopen
\* succeeds; below maxDepth the page's URLs are scanned
CrStore ==
    /\ cpc = "loop"
    /\ pages_to_crawl # <<>>
    /\ webpage_fetch(Head(pages_to_crawl))
    /\ \E canOpen \in BOOLEAN :
         crawlDir' = IF pagesave(Head(pages_to_crawl), NoFile, canOpen).ret = 0
                     THEN crawlDir \cup {crawlDocID} ELSE crawlDir
    /\ crawlDocID' = crawlDocID + 1
    /\ stored' = Append(stored, Head(pages_to_crawl).url)
    /\ LET current_page == Head(pages_to_crawl)
           r == IF current_page.depth < maxDepth
                THEN ScanLinks(web[current_page.url].links, seen_urls,
                               Tail(pages_to_crawl), current_page.depth)
                ELSE [seen |-> seen_urls, queue |-> Tail(pages_to_crawl)]
       IN  seen_urls' = r.seen /\ pages_to_crawl' = r.queue
    /\ UNCHANGED <<hashval, tvars, qvars, lvars, ivars, pvars, rvars,
                   cpc, web, maxDepth>>

\* lines 349 and 380-383: the queue is empty
CrDone ==
    /\ cpc = "loop"
    /\ pages_to_crawl = <<>>
    /\ cpc' = "done"
    /\ UNCHANGED <<hashval, tvars, qvars, lvars, ivars, pvars, rvars,
                   web, maxDepth, seen_urls, pages_to_crawl, crawlDocID,
                   crawlDir, stored>>

CrNext == CrSeed \/ CrFetchFail \/ CrStore \/ CrDone

SpecCrawler == CrInit /\ [][CrNext]_vars

---------------------------------------------------------------------------
(* the arithmetic on ranks: src/querier/query.c, lines 298-309 and 454-458 *)

\* the ranks two results of one document can hold: counts that indexload
\* read with %d, and sums of them
RankValues ==
    {INT_MIN, INT_MIN + 1, -2, -1, 0, 1, 2, 5, 1073741823, 1073741824,
     INT_MAX - 1, INT_MAX}

RkInit ==
    /\ hashval = [w \in IndexWords |-> 0]
    /\ rpc = "call"
    /\ rank_a \in RankValues
    /\ rank_b \in RankValues
    /\ rank_out = NONE
    /\ TestIdle /\ QuerierIdle /\ LoaderIdle /\ IndexerIdle
    /\ PageioIdle /\ CrawlerIdle

\* merge_or_results on a final queue and a group queue that hold the same
\* document with ranks rank_a and rank_b: line 305. A signed sum that
\* leaves the values of an int is undefined: it wraps or the program traps
RkMerge ==
    /\ rpc = "call"
    /\ LET merged == merge_or_results(<<[docID |-> 1, rank |-> rank_a]>>,
                                      <<[docID |-> 1, rank |-> rank_b]>>)
       IN  \/ rpc' = "sum" /\ rank_out' = merged[1].rank
           \/ /\ AddOverflows(rank_a, rank_b)
              /\ rpc' = "trap"
              /\ rank_out' = NONE
    /\ UNCHANGED <<hashval, tvars, qvars, lvars, ivars, pvars, cvars,
                   rank_a, rank_b>>

\* compare_results on results with ranks rank_a and rank_b: line 457
RkCompare ==
    /\ rpc = "call"
    /\ \/ /\ rpc' = "cmp"
          /\ rank_out' = compare_results([docID |-> 1, rank |-> rank_a],
                                         [docID |-> 2, rank |-> rank_b])
       \/ /\ SubOverflows(rank_b, rank_a)
          /\ rpc' = "trap"
          /\ rank_out' = NONE
    /\ UNCHANGED <<hashval, tvars, qvars, lvars, ivars, pvars, cvars,
                   rank_a, rank_b>>

RkNext == RkMerge \/ RkCompare

SpecRank == RkInit /\ [][RkNext]_vars

---------------------------------------------------------------------------
(* What the claims speak of, stated without the code's loops *)


LowerStr(t) == [k \in 1..Len(t) |-> tolower(t[k])]

\* the white-space delimited tokens of the line as typed
RawTokens == strtok(line, {" ", "\t", "\n"})

\* a line has been read and validated, and the loop body is not yet left
LineRead == pc \in {"and", "merge", "print", "next"}

\* no word twice in the index, no document twice in a doc queue
IndexWellFormed(ht) ==
    /\ \A a, b \in 1..Len(ht.elems) :
          a # b => ht.elems[a].word # ht.elems[b].word
    /\ \A a \in 1..Len(ht.elems) :
          \A j, k \in 1..Len(ht.elems[a].docs) :
             j # k => ht.elems[a].docs[j].docID # ht.elems[a].docs[k].docID

RefPresent(ht, w) == \E k \in 1..Len(ht.elems) : ht.elems[k].word = w
RefDocs(ht, w) ==
    ht.elems[CHOOSE k \in 1..Len(ht.elems) : ht.elems[k].word = w].docs
RefDocIDs(ht, w) == { RefDocs(ht, w)[k].docID : k \in 1..Len(RefDocs(ht, w)) }
RefCount(ht, w, d) ==
    LET docs == RefDocs(ht, w)
    IN  docs[CHOOSE k \in 1..Len(docs) : docs[k].docID = d].count
AllDocIDs(ht) ==
    UNION { RefDocIDs(ht, ht.elems[k].word) : k \in 1..Len(ht.elems) }

\* the content words of a token sequence: length >= 3 and not "and"
RefContent(g) ==
    { g[k] : k \in { j \in 1..Len(g) : Len(g[j]) >= 3 /\ g[j] # kw_and } }

\* the documents an AND-group matches, and the rank of each
RefGroupDocs(ht, g) ==
    IF RefContent(g) = {} \/ \E w \in RefContent(g) : ~RefPresent(ht, w)
    THEN {}
    ELSE { d \in AllDocIDs(ht) : \A w \in RefContent(g) : d \in RefDocIDs(ht, w) }
RefGroupRank(ht, g, d) == Min({ RefCount(ht, w, d) : w \in RefContent(g) })

\* the AND-groups of a token sequence: the runs between the "or" tokens,
\* each as the positions [s, e] of its first and last token (s = e + 1 for
\* an empty group)
RefGroups(toks) ==
    LET ors == { k \in 1..Len(toks) : toks[k] = kw_or }
    IN  { [s |-> s,
           e |-> IF \E k \in ors : k >= s
                 THEN Min({ k \in ors : k >= s }) - 1 ELSE Len(toks)] :
          s \in {1} \cup { k + 1 : k \in ors } }
GroupTokens(toks, g) == SubSeq(toks, g.s, g.e)

RECURSIVE SumRanks(_, _, _, _)
SumRanks(ht, toks, groups, d) ==
    IF groups = {} THEN 0
    ELSE LET g == CHOOSE x \in groups : TRUE
         IN  (IF d \in RefGroupDocs(ht, GroupTokens(toks, g))
              THEN RefGroupRank(ht, GroupTokens(toks, g), d) ELSE 0)
             + SumRanks(ht, toks, groups \ {g}, d)

\* a queue as the set of its (docID, rank) pairs
AsSet(q) == { q[k] : k \in 1..Len(q) }
DocIDsOf(q) == { q[k].docID : k \in 1..Len(q) }
NoDocTwice(q) == \A j, k \in 1..Len(q) : j # k => q[j].docID # q[k].docID

\* the group compute_and_intersection was just called on (pc = "merge")
CurrentGroup == SubSeq(tokens, and_start_index + 1, loop_i)

InsertAt(toks, p, t) == SubSeq(toks, 1, p) \o <<t>> \o Drop(toks, p + 1)
RemoveAt(toks, p) == SubSeq(toks, 1, p - 1) \o Drop(toks, p + 1)

---------------------------------------------------------------------------
(* The claims *)

\* C1: index persistence is a fixed point: when indextest has written both
\* files, from any index, also a hand-built one in a table of another size
\* than indexload's, the second file is byte-identical to the first.
C1_RoundTripIdentical ==
    (tpc = "done" /\ testfile.exists /\ reloadfile.exists)
        => reloadfile.data = testfile.data

\* C2: for an AND-group with at least one content word, all of them in the
\* (well-formed) index, compute_and_intersection returns exactly the
\* documents in the doc list of every content word, each once, ranked with
\* the least of the words' counts for it.
C2_AndIsIntersectionWithMin ==
    (/\ pc = "merge"
     /\ IndexWellFormed(index)
     /\ RefContent(CurrentGroup) # {}
     /\ \A w \in RefContent(CurrentGroup) : RefPresent(index, w))
    => /\ ~and_results.null
       /\ NoDocTwice(and_results.items)
       /\ DocIDsOf(and_results.items) = RefGroupDocs(index, CurrentGroup)
       /\ \A r \in AsSet(and_results.items) :
             r.rank = RefGroupRank(index, CurrentGroup, r.docID)

\* C2's case: a group of two content words, a document of the first word
\* dropped, and a document kept with the smaller count, the second word's.
C2_Witness ==
    /\ pc = "merge"
    /\ ~and_results.null
    /\ \E w1, w2 \in RefContent(CurrentGroup) :
         /\ w1 # w2
         /\ RefPresent(index, w1) /\ RefPresent(index, w2)
         /\ RefDocIDs(index, w1) \ DocIDsOf(and_results.items) # {}
         /\ \E r \in AsSet(and_results.items) :
               /\ r.rank = RefCount(index, w2, r.docID)
               /\ r.rank < RefCount(index, w1, r.docID)

\* C3: when all groups are merged, the final queue holds exactly the
\* documents of the union of the groups' results, each once, and the rank
\* of each is the sum of its ranks in the groups that hold it.
C3_OrIsUnionWithSum ==
    (pc = "print" /\ IndexWellFormed(index))
    => /\ NoDocTwice(final_results)
       /\ DocIDsOf(final_results) =
            UNION { RefGroupDocs(index, GroupTokens(tokens, g)) :
                      g \in RefGroups(tokens) }
       /\ \A r \in AsSet(final_results) :
             r.rank = SumRanks(index, tokens, RefGroups(tokens), r.docID)

\* C3's case: a query of several groups is evaluated, one document was
\* found by exactly one group and another by two, as doc 3 and doc 1 of
\* "cat or cat Dog".
C3_Witness ==
    /\ pc = "print"
    /\ \E r \in AsSet(final_results) :
          Cardinality({ g \in RefGroups(tokens) :
              r.docID \in RefGroupDocs(index, GroupTokens(tokens, g)) }) = 1
    /\ \E r \in AsSet(final_results) :
          Cardinality({ g \in RefGroups(tokens) :
              r.docID \in RefGroupDocs(index, GroupTokens(tokens, g)) }) = 2

\* C4: a group without content word, or with a content word (the first or a
\* later one) that is not in the index, yields NULL and no error; merging
\* it changes nothing, prints nothing and the loop over the groups goes on;
\* at the end the final queue holds the documents of every other group.
C4_EmptyGroupState ==
    /\ (/\ pc = "merge"
        /\ \/ RefContent(CurrentGroup) = {}
           \/ \E w \in RefContent(CurrentGroup) : ~RefPresent(index, w))
       => (and_results = NullQueue /\ exitCode = NONE /\ out = <<>>)
    /\ (pc = "print" /\ IndexWellFormed(index))
       => \A g \in RefGroups(tokens) :
             RefGroupDocs(index, GroupTokens(tokens, g))
                \subseteq DocIDsOf(final_results)
C4_EmptyGroupStep ==
    (pc = "merge" /\ and_results.null)
    => /\ final_results' = final_results
       /\ out' = out
       /\ exitCode' = exitCode
       /\ pc' = IF loop_i >= num_tokens THEN "print" ELSE "and"
C4_EmptyGroupContributesNothing ==
    [] C4_EmptyGroupState /\ [][C4_EmptyGroupStep]_vars

\* C4's case: all groups are merged, one of them had its first content word
\* in the index and a later one not, and another group's documents are in
\* the final queue.
C4_Witness ==
    /\ pc = "print"
    /\ final_results # <<>>
    /\ \E g \in RefGroups(tokens) :
         LET gt == GroupTokens(tokens, g)
             first == Min({ k \in 1..Len(gt) : gt[k] \in RefContent(gt) })
         IN  /\ RefContent(gt) # {}
             /\ RefPresent(index, gt[first])
             /\ RefDocs(index, gt[first]) # <<>>
             /\ \E k \in (first + 1)..Len(gt) :
                   gt[k] \in RefContent(gt) /\ ~RefPresent(index, gt[k])

C6_ShortTokensIgnored ==
    (pc = "merge" /\ RefContent(CurrentGroup) # {})
    => LET g == SelectSeq(CurrentGroup, LAMBDA t : Len(t) >= 3)
           r == compute_and_intersection(index, g, 0, Len(g) - 1)
       IN  /\ r.null = and_results.null
           /\ AsSet(r.items) = AsSet(and_results.items)

\* C6's case: a group with a short token before its first content word and
\* one after it has matched a document.
C6_Witness ==
    /\ pc = "merge"
    /\ and_results.items # <<>>
    /\ \E j, k, m \in 1..Len(CurrentGroup) :
         /\ j < k /\ k < m
         /\ Len(CurrentGroup[j]) < 3 /\ Len(CurrentGroup[m]) < 3
         /\ CurrentGroup[k] \in RefContent(CurrentGroup)
         /\ \A n \in 1..(k - 1) : CurrentGroup[n] \notin RefContent(CurrentGroup)

\* C7: a line whose first or last token is "and" or "or" in any letter case
\* is rejected, so no accepted token sequence starts or ends with an
\* operator.
C7_OperatorAtEndsRejected ==
    (LineRead /\ RawTokens # <<>>)
    => /\ (\/ is_operator(LowerStr(RawTokens[1]))
           \/ is_operator(LowerStr(RawTokens[Len(RawTokens)])))
          => num_tokens = -1
       /\ num_tokens > 0
          => (~is_operator(tokens[1]) /\ ~is_operator(tokens[num_tokens]))

\* C8: a line with two consecutive operator words is rejected, so no
\* accepted token sequence holds two adjacent operator tokens.
C8_AdjacentOperatorsRejected ==
    LineRead
    => /\ (\E k \in 1..(Len(RawTokens) - 1) :
              is_operator(RawTokens[k]) /\ is_operator(RawTokens[k + 1]))
          => num_tokens = -1
       /\ num_tokens > 0
          => \A k \in 1..(num_tokens - 1) :
                ~(is_operator(tokens[k]) /\ is_operator(tokens[k + 1]))

\* C9: a line with a non-operator token that holds a character that is no
\* letter is rejected; an accepted line returns every token of the line,
\* lower-cased, whatever its length; and a line is rejected only for more
\* than MAX_WORDS tokens, an operator first or last, two operators in a
\* row or a character that is no letter: never for a short token.
C9_ValidatorChecksLettersOnly ==
    LineRead
    => LET raw == RawTokens
           n == Len(raw)
           nonLetter == \E k \in 1..n :
                           /\ ~is_operator(raw[k])
                           /\ \E c \in 1..Len(raw[k]) : ~isalpha(raw[k][c])
       IN  /\ nonLetter => num_tokens = -1
           /\ num_tokens # -1
              => /\ num_tokens = n
                 /\ tokens = [k \in 1..n |-> LowerStr(raw[k])]
           /\ num_tokens = -1
              => \/ n > MAX_WORDS
                 \/ is_operator(raw[1]) \/ is_operator(raw[n])
                 \/ \E k \in 1..(n - 1) :
                       is_operator(raw[k]) /\ is_operator(raw[k + 1])
                 \/ nonLetter

\* C9's case: an accepted line with a token of less than 3 letters and a
\* token that was typed with a capital and is returned lower-cased.
C9_Witness ==
    /\ LineRead
    /\ num_tokens > 0
    /\ \E k \in 1..num_tokens : Len(tokens[k]) < 3 /\ ~is_operator(RawTokens[k])
    /\ \E k \in 1..num_tokens :
          tokens[k] # RawTokens[k] /\ ~is_operator(tokens[k])

\* what one line prints, from the index and the line alone
LineOutcomes(ht, l) ==
    LET v == validate_and_parse_query(l)
    IN  IF v.ret = -1 THEN { <<OutInvalid>> }
        ELSE IF v.ret = 0 THEN { <<>> }
        ELSE print_results(process_query_loop(ht, v.tokens, 0, <<>>))

\* C10: an invalid query does not end the read loop: the step that reads a
\* rejected line prints "[invalid query]" and nothing else, starts no
\* retrieval and goes to the end of the loop body; from there the loop
\* always goes back to read; the querier exits from the loop only when
\* fgets finds the end of the input, with EXIT_SUCCESS; and whatever was
\* read before, a line prints what the index and the line alone determine.
C10_Step ==
    /\ (pc = "loop" /\ line' # <<>> /\ num_tokens' = -1)
       => /\ pc' = "next"
          /\ out' = <<OutInvalid>>
          /\ final_results' = <<>> /\ and_results' = NullQueue
          /\ exitCode' = NONE
    /\ (pc = "next") => (pc' = "loop" /\ exitCode' = NONE /\ index' = index)
    /\ (pc' = "exit" /\ pc \notin {"start", "exit"})
       => (pc = "loop" /\ line' = <<>> /\ exitCode' = EXIT_SUCCESS)
C10_State ==
    /\ (pc = "next") => out \in LineOutcomes(index, line)
    /\ (LineRead /\ num_tokens = -1) => pc = "next"
C10_InvalidQueryKeepsLoop == [] C10_State /\ [][C10_Step]_vars

\* C10's case: a line has been rejected and reported, and the querier, which
\* has not exited, is at the end of the loop body, about to go back to fgets.
C10_Witness ==
    /\ pc = "next"
    /\ num_tokens = -1
    /\ out = <<OutInvalid>>
    /\ exitCode = NONE

---------------------------------------------------------------------------
(* Index files as text, read without indexload's buffers *)

\* the lines of a text: the runs between its newlines, without the newline
RECURSIVE LinesFrom(_, _)
LinesFrom(data, p) ==
    IF p > Len(data) THEN <<>>
    ELSE LET e == FindSet(data, p, {"\n"})
         IN  <<SubSeq(data, p, e - 1)>> \o LinesFrom(data, e + 1)
RefLines(data) == LinesFrom(data, 1)

\* the white-space delimited tokens of a line
RefTokens(l) == strtok(l, WhiteSpace)

\* the lines that hold a token
RefWordLines(data) == SelectSeq(RefLines(data), LAMBDA l : RefTokens(l) # <<>>)

\* a token that is an integer: an optional sign and digits, nothing else
IsIntToken(t) ==
    LET d == IF t[1] \in {"+", "-"} THEN 2 ELSE 1
    IN  Len(t) >= d /\ \A k \in d..Len(t) : isdigit(t[k])
IntVal(t) == ScanInt(t, 1).val

\* the (docID, count) pairs at the head of a token sequence, up to the first
\* pair that is not two integers
RECURSIVE RefPairs(_)
RefPairs(toks) ==
    IF Len(toks) >= 2 /\ IsIntToken(toks[1]) /\ IsIntToken(toks[2])
    THEN <<Doc(IntVal(toks[1]), IntVal(toks[2]))>>
         \o RefPairs(Tail(Tail(toks)))
    ELSE <<>>

\* C16: indexload returns one WordEntry for every line of the file that
\* holds a token, in file order, its word the line's whole first token;
\* lines without token give no entry, and a word of an earlier line gets a
\* second entry.
C16_OneEntryPerLine ==
    (lpc = "ret" /\ indexnm.exists)
    => LET ls == RefWordLines(indexnm.data)
       IN  /\ ~loaded.null
           /\ Len(loaded.elems) = Len(ls)
           /\ \A k \in 1..Len(ls) :
                 k <= Len(loaded.elems)
                 => loaded.elems[k].word = RefTokens(ls[k])[1]

\* C17: the entry of a line holds exactly the pairs of integer tokens that
\* stand after the word and before the first pair that is not two integers,
\* in file order; a single integer left over is dropped.
C17_PairsUpToFirstFailure ==
    (lpc = "ret" /\ indexnm.exists)
    => LET ls == RefWordLines(indexnm.data)
       IN  /\ Len(loaded.elems) = Len(ls)
           /\ \A k \in 1..Len(ls) :
                 k <= Len(loaded.elems)
                 => loaded.elems[k].docs = RefPairs(Tail(RefTokens(ls[k])))
---------------------------------------------------------------------------
(* The page directory, read without build_index's loops *)

\* the word is one the index can hold: 3 characters or more, letters only
RefIndexable(w) == Len(w) >= 3 /\ \A k \in 1..Len(w) : isalpha(w[k])

\* the last document of the run 1, 2, 3, ... of page files that exist
RefLastDoc(dir) ==
    CHOOSE n \in 0..Len(dir) :
       /\ \A d \in 1..n : dir[d].exists
       /\ n = Len(dir) \/ ~dir[n + 1].exists

\* how often the normalized word w occurs in the word stream of document d
RefOccurrences(dir, d, w) ==
    Cardinality({ j \in 1..Len(dir[d].words) :
                    /\ RefIndexable(dir[d].words[j])
                    /\ LowerStr(dir[d].words[j]) = w })

\* the normalized words of documents 1..n
RefWords(dir, n) ==
    { w \in UNION { { LowerStr(dir[d].words[j]) : j \in 1..Len(dir[d].words) } :
                    d \in 1..n } :
        \E d \in 1..n : RefOccurrences(dir, d, w) > 0 }

\* the counts the index holds for word w and document d: <<k, j, count>>
\* for every DocEntry j of d in an entry k of w
IndexCounts(ht, w, d) ==
    UNION { { <<k, j, ht.elems[k].docs[j].count>> :
                j \in { j \in 1..Len(ht.elems[k].docs) :
                          ht.elems[k].docs[j].docID = d } } :
            k \in { k \in 1..Len(ht.elems) : ht.elems[k].word = w } }

\* the word webpage_getNextWord returned last
CurrentWord == pageDir[ixdocID].words[ixpos]

\* C11: NormalizeWord returns NULL exactly for a word of fewer than 3
\* characters or with a character that is no letter, and the word with
\* every letter lower-cased otherwise.
C11_NormalizeWord ==
    (ipc = "words" /\ ixpos >= 1)
    => /\ normalized.null
          <=> (\/ Len(CurrentWord) < 3
               \/ \E k \in 1..Len(CurrentWord) : ~isalpha(CurrentWord[k]))
       /\ ~normalized.null => normalized.word = LowerStr(CurrentWord)

\* C11's case: a page gave a word of 2 letters, a word of 3 characters with
\* a digit, then a capitalised word: only the last one came back, in
\* lower case, and only it was indexed.
C11_Witness ==
    /\ ipc = "words" /\ ixpos = 3
    /\ Len(pageDir[ixdocID].words[1]) < 3
    /\ Len(pageDir[ixdocID].words[2]) >= 3
    /\ ~RefIndexable(pageDir[ixdocID].words[2])
    /\ ~normalized.null
    /\ normalized.word # CurrentWord
    /\ Len(ixindex.elems) = 1 /\ ixindex.elems[1].word = normalized.word
\* C12: when build_index has returned, the index holds a DocEntry (d, c)
\* under a word w exactly when d is one of the documents 1..N read and w
\* occurs, normalized, in d's word stream, and c is the number of those
\* occurrences; every word of the index is the normalized form of a word
\* of the documents, so words that fail normalization have no entry.
C12_CountsAreOccurrences ==
    (ipc \in {"save", "exit"} /\ ~ixindex.null)
    => LET N == RefLastDoc(pageDir)
       IN  /\ \A k \in 1..Len(ixindex.elems) :
                 /\ ixindex.elems[k].word \in RefWords(pageDir, N)
                 /\ \A j \in 1..Len(ixindex.elems[k].docs) :
                       ixindex.elems[k].docs[j].docID \in 1..N
           /\ \A w \in RefWords(pageDir, N) : \A d \in 1..N :
                 /\ IndexCounts(ixindex, w, d) # {}
                      <=> RefOccurrences(pageDir, d, w) > 0
                 /\ \A c \in IndexCounts(ixindex, w, d) :
                       c[3] = RefOccurrences(pageDir, d, w)

\* C12's case: build_index has returned, a word occurs twice in one
\* document and once in another, and the index holds both counts.
C12_Witness ==
    /\ ipc = "save"
    /\ \E w \in RefWords(pageDir, RefLastDoc(pageDir)) :
         \E d1, d2 \in 1..RefLastDoc(pageDir) :
            /\ RefOccurrences(pageDir, d1, w) = 2
            /\ RefOccurrences(pageDir, d2, w) = 1
            /\ \E c \in IndexCounts(ixindex, w, d1) : c[3] = 2
            /\ \E c \in IndexCounts(ixindex, w, d2) : c[3] = 1

\* C13: in every state of the construction no word has two entries, no
\* entry has two DocEntry of one docID, every count is at least 1 and the
\* docIDs of an entry ascend; and a word that is already counted for the
\* current document adds 1 to that count and appends nothing.
C13_WellFormedState ==
    ~ixindex.null
    => /\ IndexWellFormed(ixindex)
       /\ \A k \in 1..Len(ixindex.elems) :
             LET docs == ixindex.elems[k].docs
             IN  /\ \A j \in 1..Len(docs) : docs[j].count >= 1
                 /\ \A i, j \in 1..Len(docs) :
                       i < j => docs[i].docID < docs[j].docID
C13_RepeatStep ==
    (/\ ipc = "words" /\ ixpos' = ixpos + 1
     /\ ~normalized'.null
     /\ IndexCounts(ixindex, normalized'.word, ixdocID) # {})
    => /\ Len(ixindex'.elems) = Len(ixindex.elems)
       /\ \A k \in 1..Len(ixindex.elems) :
             /\ ixindex'.elems[k].word = ixindex.elems[k].word
             /\ Len(ixindex'.elems[k].docs) = Len(ixindex.elems[k].docs)
             /\ \A j \in 1..Len(ixindex.elems[k].docs) :
                   LET old == ixindex.elems[k].docs[j]
                       new == ixindex'.elems[k].docs[j]
                   IN  /\ new.docID = old.docID
                       /\ new.count =
                            IF /\ ixindex.elems[k].word = normalized'.word
                               /\ old.docID = ixdocID
                            THEN old.count + 1 ELSE old.count
C13_IndexWellFormed == [] C13_WellFormedState /\ [][C13_RepeatStep]_vars

\* C13's case: a word was counted in document 1, then twice in document 2:
\* one entry, two DocEntry, the second with count 2.
C13_Witness ==
    /\ ipc = "words" /\ ixdocID = 2 /\ ixpos = 2
    /\ \E k \in 1..Len(ixindex.elems) :
         /\ Len(ixindex.elems[k].docs) = 2
         /\ ixindex.elems[k].docs[2] = Doc(2, 2)
\* the pageload calls of a whole run: page 1 by parse_args, then pages 1 to
\* k by build_index
ExpectedReads(k) == <<1>> \o [d \in 1..k |-> d]

\* C14: the indexer reads the pages 1, 2, 3, ... and stops at the first
\* docID k whose page cannot be loaded: no page behind k is ever read, the
\* documents indexed are those of 1..k-1, the missing page takes
\* build_index to its return without an exit code, and the index is then
\* saved and the exit code is EXIT_SUCCESS (EXIT_FAILURE only when the
\* index file cannot be opened, which leaves the file alone).
C14_ReadsState ==
    LET k == RefLastDoc(pageDir) + 1
    IN  /\ \A i \in 1..Len(pagesRead) : pagesRead[i] <= k
        /\ Len(pagesRead) <= k + 1
        /\ pagesRead = SubSeq(ExpectedReads(k), 1, Len(pagesRead))
        /\ (ipc \in {"save", "exit"} /\ k > 1)
           => /\ pagesRead = ExpectedReads(k)
              /\ AllDocIDs(ixindex) =
                   { d \in 1..(k - 1) :
                       \E j \in 1..Len(pageDir[d].words) :
                          RefIndexable(pageDir[d].words[j]) }
C14_GapStep ==
    /\ (ipc = "page" /\ ~PageExists(pageDir, ixdocID))
       => (ipc' = "save" /\ ixexit' = NONE /\ ixindex' = ixindex)
    /\ (ipc = "save")
       => /\ ipc' = "exit"
          /\ \/ /\ ixexit' = EXIT_SUCCESS
                /\ indexFile'.exists
                /\ Len(RefLines(indexFile'.data)) = Len(ixindex.elems)
             \/ /\ ixexit' = EXIT_FAILURE
                /\ indexFile' = indexFile
RefEntryTokens(e) ==
    [i \in 1..(1 + 2 * Len(e.docs)) |->
        IF i = 1 THEN e.word
        ELSE IF i % 2 = 0 THEN FmtInt(e.docs[i \div 2].docID)
        ELSE FmtInt(e.docs[(i - 1) \div 2].count)]

\* the line holds these tokens with one space between them and nothing else
LineIsEntry(l, e) ==
    /\ RefTokens(l) = RefEntryTokens(e)
    /\ Len(l) = Len(Concat(RefEntryTokens(e))) + 2 * Len(e.docs)
    /\ \A k \in 1..Len(l) : l[k] \in WhiteSpace => l[k] = " "

\* the file holds one line for every entry of the index, and nothing else
Written(file, ht) ==
    /\ file.exists
    /\ file.data # <<>> => file.data[Len(file.data)] = "\n"
    /\ Len(RefLines(file.data)) = Len(ht.elems)
    /\ \E p \in Permutations(1..Len(ht.elems)) :
          \A k \in 1..Len(ht.elems) :
             LineIsEntry(RefLines(file.data)[k], ht.elems[p[k]])

\* C15: the file indexsave has written holds exactly one line for every
\* WordEntry of the index: the word, then for each DocEntry in the entry's
\* order a space, the docID, a space, the count, then a newline; nothing
\* of the file's earlier content is left.
C15_OneLinePerEntry ==
    (ipc = "exit" /\ ixexit = EXIT_SUCCESS) => Written(indexFile, ixindex)

\* C15's case: an index of two words, one of them in two documents, has
\* been saved into two lines.
C15_Witness ==
    /\ ipc = "exit" /\ ixexit = EXIT_SUCCESS
    /\ Len(ixindex.elems) = 2
    /\ \E k \in 1..2 : Len(ixindex.elems[k].docs) = 2
    /\ Len(RefLines(indexFile.data)) = 2

\* C18: a file that cannot be opened is signalled and ends the run:
\* indexsave then returns non-zero and leaves the file as it was, and the
\* indexer exits with EXIT_FAILURE whenever the index was not written;
\* indexload then returns NULL, and the querier goes from there to its
\* exit with EXIT_FAILURE, no line read, nothing evaluated or printed.
C18_OpenFailureState ==
    /\ EXIT_FAILURE # 0
    /\ indexload(NoFile).null
    /\ (ipc = "save")
       => LET r == indexsave(ixindex, indexFile, FALSE)
          IN  r.ret # 0 /\ r.file = indexFile
    /\ index.null => pc \in {"off", "start", "exit"}
    /\ (pc = "exit" /\ exitCode = EXIT_FAILURE)
       => /\ index.null
          /\ line = <<>> /\ tokens = <<>> /\ num_tokens = NONE
          /\ final_results = <<>> /\ out = <<>>
C18_OpenFailureStep ==
    /\ (pc = "start" /\ index'.null)
       => (pc' = "exit" /\ exitCode' = EXIT_FAILURE)
    /\ (ipc = "save" /\ ~Written(indexFile', ixindex))
       => (indexFile' = indexFile /\ ixexit' = EXIT_FAILURE /\ ipc' = "exit")
    /\ (ipc = "save" /\ ixexit' # EXIT_SUCCESS)
       => (indexFile' = indexFile /\ ixexit' = EXIT_FAILURE)
C18_OpenFailureAborts ==
    [] C18_OpenFailureState /\ [][C18_OpenFailureStep]_vars

\* C18's case: the querier could not open its index file and is at its
\* exit with EXIT_FAILURE.
C18_Witness ==
    /\ pc = "exit" /\ exitCode = EXIT_FAILURE
    /\ index.null
    /\ num_tokens = NONE
\* the result rows among what a line printed
Rows(printed) == SelectSeq(printed, LAMBDA o : o.kind = "row")

\* C19: print_results prints the results in non-increasing order of rank:
\* of two printed rows the earlier has a rank at least that of the later;
\* every result of the final queue whose page can be read is printed in
\* exactly one row, with its rank, and no other row is printed.
C19_PrintStep ==
    (pc = "print")
    => LET rows == Rows(out')
       IN  /\ \A a, b \in 1..Len(rows) : a < b => rows[a].rank >= rows[b].rank
           /\ \A k \in 1..Len(final_results) :
                 final_results[k].docID \in PageDocs
                 => Cardinality({ a \in 1..Len(rows) :
                        /\ rows[a].docID = final_results[k].docID
                        /\ rows[a].rank = final_results[k].rank }) = 1
           /\ Len(rows) = Cardinality({ k \in 1..Len(final_results) :
                                          final_results[k].docID \in PageDocs })
C19_PrintedByRank == [][C19_PrintStep]_vars

\* C19's case: two results were printed, the one of the greater rank first
\* although its document came later in the doc list.
C19_Witness ==
    /\ pc = "next"
    /\ Len(Rows(out)) = 2
    /\ Rows(out)[1].rank > Rows(out)[2].rank
    /\ Rows(out)[1].docID > Rows(out)[2].docID

\* C20: results of equal rank are printed in an order that one fixed rule
\* determines from the final result queue: print_results has one possible
\* output for a final queue.
C20_TieOrderDetermined ==
    (pc = "print") => Cardinality(print_results(final_results)) = 1
---------------------------------------------------------------------------
(* Printing, page by page *)

\* the warnings among what a line printed
Warnings(printed) == SelectSeq(printed, LAMBDA o : o.kind = "Warning")

\* C21: a matched document whose page cannot be loaded is passed over with
\* a warning for it, and every other matched document is still printed, in
\* rank order, before and after it; the step ends at the end of the loop
\* body with no exit code, from where the loop goes back to read.
C21_SkipStep ==
    /\ (pc = "print")
       => LET rows == Rows(out')
              warns == Warnings(out')
          IN  /\ { rows[k].docID : k \in 1..Len(rows) }
                   = DocIDsOf(final_results) \cap PageDocs
              /\ { warns[k].docID : k \in 1..Len(warns) }
                   = DocIDsOf(final_results) \ PageDocs
              /\ Len(rows) + Len(warns) = Len(final_results)
              /\ \A a, b \in 1..Len(rows) : a < b => rows[a].rank >= rows[b].rank
              /\ pc' = "next" /\ exitCode' = NONE
    /\ (pc = "next") => (pc' = "loop" /\ exitCode' = NONE)
C22_EmptyIsNoMatch ==
    /\ (pc = "print" /\ final_results = <<>>)
       => print_results(final_results) = { <<OutNoMatch>> }
    /\ (pc = "print" /\ index.elems = <<>>) => final_results = <<>>
    /\ (pc = "next" /\ num_tokens > 0)
       => /\ (index.elems = <<>>
               \/ process_query_loop(index, tokens, 0, <<>>) = <<>>)
             => out = <<OutNoMatch>>
          /\ out = <<OutNoMatch>> \/ out[1].kind = "Matches"
    /\ \A k \in 1..Len(out) : out[k].kind = "No documents match." => Len(out) = 1
    /\ ~indexload([exists |-> TRUE, data |-> <<>>]).null

\* C22's case: the index came from a file with zero lines, a line of two
\* words was accepted, evaluated and answered with "No documents match.".
C22_Witness ==
    /\ pc = "next"
    /\ ~index.null /\ index.elems = <<>>
    /\ num_tokens = 2
    /\ out = <<OutNoMatch>>
\* C23: page files round-trip: for every page, the HTML of any content,
\* pageload of the file pagesave wrote for it succeeds and gives a page of
\* the same URL, depth and HTML, and the file saved from the reloaded page
\* is byte-identical to the file it was loaded from.
C23_PageRoundTrip ==
    /\ (ppc \notin {"off", "load1"})
       => (~page1.null /\ page1 = srcpage)
    /\ (ppc \in {"save2", "diff"} /\ pfile999.exists)
       => (~page2.null /\ page2 = page1)
    /\ (ppc = "diff" /\ pfile999.exists /\ pfile888.exists)
       => pfile888.data = pfile999.data
\* the documents a token sequence matches: those of any of its AND-groups
RefMatched(ht, toks) ==
    UNION { RefGroupDocs(ht, GroupTokens(toks, g)) : g \in RefGroups(toks) }

\* C24: what a line prints is determined by the line and the loaded index,
\* whatever lines were evaluated before it and whatever they left in
\* g_count: an invalid line prints "[invalid query]", a line without token
\* nothing, any other line "No documents match." or the header with the
\* number of documents it matches and their rows; and no step after the
\* loading changes the index.
C24_State ==
    (pc = "next")
    => /\ out \in LineOutcomes(index, line)
       /\ num_tokens = -1 => out = <<OutInvalid>>
       /\ num_tokens = 0 => out = <<>>
       /\ num_tokens > 0
          => LET n == Cardinality(RefMatched(index, tokens))
             IN  IF n = 0 THEN out = <<OutNoMatch>>
                 ELSE out[1] = OutHeader(n) /\ Len(out) <= n + 1
C24_Step == (pc \notin {"off", "start"}) => index' = index
C24_QueriesIndependent == [] C24_State /\ [][C24_Step]_vars

\* C24's case: a line of one word is evaluated and matched a document,
\* while g_count still holds the 3 results that an earlier line printed.
C24_Witness ==
    /\ pc = "print"
    /\ num_tokens = 1
    /\ Len(final_results) = 1
    /\ g_count = 3
\* C25: every QueryResult allocated for a line is held by one queue until
\* it is freed, and is freed once: in every state the results allocated
\* and not yet freed are as many as the group's queue and the final queue
\* hold together, never more are freed than were allocated, and when
\* process_query has returned all of them are freed.
C25_ResultsFreedOnce ==
    /\ frees <= mallocs
    /\ mallocs - frees = Len(and_results.items) + Len(final_results)
    /\ (pc \in {"next", "loop", "exit"}) => mallocs = frees

\* C25's case: process_query has returned from a line for which four
\* results were allocated: two were merged into entries of the final queue
\* and freed, the two of the final queue were printed and freed.
C25_Witness ==
    /\ pc = "next"
    /\ mallocs = 4 /\ frees = 4
    /\ Len(Rows(out)) = 2
    /\ Cardinality(RefGroups(tokens)) = 2
\* the sum of the ranks of document d in a queue
RECURSIVE RankSum(_, _)
RankSum(q, d) ==
    IF q = <<>> THEN 0
    ELSE (IF Head(q).docID = d THEN Head(q).rank ELSE 0) + RankSum(Tail(q), d)

\* the results of all AND-groups of a token sequence, one after the other
RECURSIVE GroupResults(_, _, _)
GroupResults(ht, toks, groups) ==
    IF groups = {} THEN <<>>
    ELSE LET g == CHOOSE x \in groups : TRUE
         IN  compute_and_intersection(ht, toks, g.s - 1, g.e - 1).items
             \o GroupResults(ht, toks, groups \ {g})

\* C26: in every state the final queue holds at most one result for a
\* docID, also when the queue of an AND-group holds a docID more than once,
\* as with a doc list that repeats a docID; when all groups are merged,
\* the one result of a document has the sum of the ranks of all results
\* the groups gave for it.
C26_OneResultPerDoc ==
    /\ NoDocTwice(final_results)
    /\ (pc = "print")
       => LET all == GroupResults(index, tokens, RefGroups(tokens))
          IN  /\ DocIDsOf(final_results) = DocIDsOf(all)
              /\ \A r \in AsSet(final_results) : r.rank = RankSum(all, r.docID)

\* C26's case: the doc list of the word holds document 1 with counts 2 and
\* 3; the group's queue held it twice, the final queue holds it once with
\* rank 5.
C26_Witness ==
    /\ pc = "print"
    /\ ~IndexWellFormed(index)
    /\ num_tokens = 1
    /\ final_results = <<[docID |-> 1, rank |-> 5], [docID |-> 2, rank |-> 4]>>

\* C27: the token array is never overrun. At most MAX_WORDS tokens are
\* stored, a line of more than MAX_WORDS tokens is rejected and a line of
\* exactly MAX_WORDS words is accepted; and every tokens[i] that
\* process_query and compute_and_intersection read has 0 <= i < num_tokens,
\* also for an empty AND-group (start > end).
C27_TokensInBounds ==
    /\ Len(tokens) <= MAX_WORDS
    /\ LineRead
       => /\ Len(RawTokens) > MAX_WORDS => num_tokens = -1
          /\ (/\ Len(RawTokens) = MAX_WORDS
              /\ \A k \in 1..MAX_WORDS :
                    ~is_operator(RawTokens[k]) /\ validate_word(RawTokens[k]).ok)
             => num_tokens = MAX_WORDS
    /\ \A i \in tokreads : 0 <= i /\ i < num_tokens
    /\ (pc = "merge" /\ and_start_index > loop_i - 1)
       => AndReads(index, tokens, and_start_index, loop_i - 1) = {}

\* a line of MAX_WORDS tokens was accepted and every one of them was read
C27_Witness ==
    /\ pc = "next"
    /\ num_tokens = MAX_WORDS
    /\ tokreads = 0..(MAX_WORDS - 1)

\* C28: every line of standard input that ends in a newline is evaluated as
\* exactly one query, whatever its length: the line that main validates and
\* evaluates is the whole input line, and nothing of it is left for a
\* further call of fgets.
C28_WholeLineOneQuery ==
    (LineRead /\ stdin_line # <<>> /\ stdin_line[Len(stdin_line)] = "\n")
    => (line = stdin_line /\ stdin_rest = <<>>)

\* C29: rank arithmetic never wraps for the counts an index file can hold:
\* the sum of merge_or_results is the sum of the two ranks, and
\* compare_results returns a negative, zero or positive value exactly when
\* the first rank is greater than, equal to or less than the second.
C29_RankArithmeticExact ==
    /\ rpc # "trap"
    /\ rpc = "sum"
       => /\ ~AddOverflows(rank_a, rank_b)
          /\ rank_out = rank_a + rank_b
    /\ rpc = "cmp"
       => /\ rank_out < 0 <=> rank_a > rank_b
          /\ rank_out = 0 <=> rank_a = rank_b
          /\ rank_out > 0 <=> rank_a < rank_b

\* C30: the crawler leaves a corpus without a gap: the page files of the
\* page directory are numbered exactly 1..N for the N pages that came to
\* pagesave, so no docID is used up without its page file being written;
\* and a page whose fetch fails uses up no docID.
C30_CorpusGapFree ==
    cpc \in {"loop", "done"}
    => /\ crawlDir = 1..(crawlDocID - 1)
       /\ crawlDocID - 1 = Len(stored)

====
